---- MODULE Spec2Model ----
(***************************************************************************)
(* Model of the Instagram publish pipeline of insta-mcp: the error         *)
(* classifier (handleInstagramError), the image pre-flight validator, the  *)
(* container readiness poller and the three publish orchestrators          *)
(* (image, carousel, Reel).                                                *)
(*                                                                         *)
(* One invocation of one orchestrator is modelled as a state machine whose *)
(* steps are the pieces of the async function between two awaits.  The     *)
(* provider (fetch) is the environment: every awaited HTTP call is         *)
(* answered by a transport failure or by a response drawn from a small set *)
(* of statuses and bodies.                                                 *)
(*                                                                         *)
(* The specifications share the variables: Spec (one tool call and its     *)
(* orchestrator), FairSpec (Spec with every await resuming),               *)
(* ClassifierSpec (handleInstagramError on its own), ConcurrentSpec (two   *)
(* invocations interleaved at their awaits), AuthServerSpec (the OAuth     *)
(* callback server, which writes user.json), PollerSpec (the Reel with     *)
(* other parameters of the poller) and StoreSpec (an invocation while the  *)
(* callback server overwrites user.json).                                  *)
(*                                                                         *)
(* Values.  Strings are TLA+ strings.  A JavaScript value that may be      *)
(* absent (undefined) is a sequence of length at most one.  A falsy string *)
(* (undefined or "") is "".                                                *)
(***************************************************************************)
EXTENDS Integers, Sequences, FiniteSets, TLC

VARIABLES
    userFile,          \* content of ../user.json (the credential store)
    tool,              \* which orchestrator was invoked ("none" before the call)
    input,             \* the input record of the invocation
    pc,                \* position of the invocation (which await it is suspended at)
    igUserId,          \* const igUserId of the invocation
    userAccessToken,   \* const userAccessToken of the invocation
    containerId,       \* containerId (image, Reel) / mainContainerId (carousel)
    itemContainerIds,  \* carousel: const itemContainerIds: string[]
    itemIndex,         \* carousel: index of the item of the for..of loop
    response,          \* last provider response received by the orchestrator
    requests,          \* every HTTP request issued by the invocation, in order
    maxWaitMs,         \* waitForContainerReady: parameter maxWaitTimeMs
    pollMs,            \* waitForContainerReady: parameter pollIntervalMs
    elapsed,           \* waitForContainerReady: Date.now() - startTime
    sleeps,            \* waitForContainerReady: the delays passed to setTimeout
    lastPoll,          \* waitForContainerReady: what the most recent status poll gave
    polls,             \* waitForContainerReady: status polls answered so far
    priorInProgress,   \* every poll before the most recent one showed IN_PROGRESS
    priorNetworkError, \* ... ended with a classified NETWORK_ERROR
    failedAt,          \* the step whose failure ended the invocation ("" if none)
    outcome,           \* what the caller of the orchestrator receives
    appId,             \* process.env.INSTAGRAM_APP_ID ("" when not set)
    call,              \* request.params of the tool call: name and arguments
    toolResponse,      \* what the tool call handler answers
    classified,        \* the calls of handleInstagramError made on their own
    invocations,       \* concurrent publish invocations: the locals of each one
    issued,            \* how many ids the provider has issued to anyone so far
    req,               \* callback server: the HTTP request being handled
    res,               \* callback server: the HTTP response sent
    getAccessToken,    \* authenticate: the parsed answer of the token exchange
    longLivedTokenData \* authenticate: the parsed answer of the long-lived exchange

vars == <<userFile, tool, input, pc, igUserId, userAccessToken, containerId,
          itemContainerIds, itemIndex, response, requests, maxWaitMs, pollMs,
          elapsed, sleeps, lastPoll, polls, priorInProgress, priorNetworkError, failedAt, outcome,
          appId, call, toolResponse, classified, invocations, issued,
          req, res, getAccessToken, longLivedTokenData>>

\* The variables of the concurrent invocations and of the callback server
concurrentVars == <<invocations, issued>>

authServerVars == <<req, res, getAccessToken, longLivedTokenData>>

----------------------------------------------------------------------------
(* Program constants *)

GRAPH_API_BASE_URL == "https://graph.instagram.com/v19.0"

maxWaitTimeMs == 60000

pollIntervalMs == 3000

MinCarouselItems == 2

MaxCarouselItems == 10

(* Bounds of the model *)

\* A slow provider answers a request after SlowLatencyMs, a fast one at once.
SlowLatencyMs == 30000

\* Carousels of up to TypedLen items take every IMAGE/VIDEO pattern; longer
\* ones alternate IMAGE and VIDEO.
TypedLen == 2

\* Carousel inputs have up to MaxCarouselItems + ExtraItems items.
ExtraItems == 1

----------------------------------------------------------------------------
(* Strings *)

StartsWith(s, p) == Len(s) >= Len(p) /\ SubSeq(s, 1, Len(p)) = p

EndsWith(s, p) == Len(s) >= Len(p) /\ SubSeq(s, Len(s) - Len(p) + 1, Len(s)) = p

Includes(s, p) ==
    \E i \in 1..(Len(s) - Len(p) + 1) : SubSeq(s, i, i + Len(p) - 1) = p

\* Array.prototype.join(",")
RECURSIVE JoinComma(_)
JoinComma(ids) ==
    IF Len(ids) = 0 THEN ""
    ELSE IF Len(ids) = 1 THEN ids[1]
    ELSE ids[1] \o "," \o JoinComma(Tail(ids))

----------------------------------------------------------------------------
(* Errors *)

InstagramErrorType ==
    {"EXPIRED_TOKEN", "INVALID_TOKEN", "INSUFFICIENT_SCOPE", "RATE_LIMIT",
     "INVALID_REQUEST", "NETWORK_ERROR", "UNKNOWN_ERROR"}

\* new InstagramApiError(message, type, statusCode?, fbTraceId?)
InstagramApiError(message, type, statusCode, fbTraceId) ==
    [t |-> "InstagramApiError", message |-> message, type |-> type,
     statusCode |-> statusCode, fbTraceId |-> fbTraceId]

\* A plain exception of the runtime (TypeError, SyntaxError, FetchError, ...)
Error(name, message) == [t |-> "Error", name |-> name, message |-> message]

IsApiError(e) == e.t = "InstagramApiError"

\* The result of evaluating code that may throw
Ret(v) == [thrown |-> FALSE, v |-> v]

Throw(e) == [thrown |-> TRUE, v |-> e]

undefined == [t |-> "undefined"]

(* Provider responses *)

\* response.ok
ok(resp) == resp.status >= 200 /\ resp.status <= 299

\* {error: {code, message, fbtrace_id}}
Envelope(code, message, trace) ==
    [t |-> "object",
     error |-> <<[code |-> code, message |-> message, fbtrace_id |-> trace]>>,
     id |-> "", status_code |-> ""]

\* {id, status_code} (either may be absent: "")
Data(id, status_code) ==
    [t |-> "object", error |-> <<>>, id |-> id, status_code |-> status_code]

JsonNull == [t |-> "null"]

\* A body that is not JSON
NotJson == [t |-> "unparsable"]

\* await response.json()
json(resp) ==
    IF resp.body.t = "unparsable"
    THEN Throw(Error("SyntaxError", "Unexpected token < in JSON"))
    ELSE Ret(resp.body)

typeErrorMessage == "Cannot read properties of null (reading 'error')"

\* Mutant of ProviderKind: code 190 is taken for an invalid token
ProviderKind_invalidToken(code) ==
    IF code = <<190>> THEN "INVALID_TOKEN"
    ELSE IF code = <<100>> \/ code = <<200>> THEN "INSUFFICIENT_SCOPE"
    ELSE IF code = <<4>> \/ code = <<17>> THEN "RATE_LIMIT"
    ELSE "INVALID_REQUEST"

\* Mutant of ProviderKind: code 200 is left out of INSUFFICIENT_SCOPE
ProviderKind_without200(code) ==
    IF code = <<190>> THEN "EXPIRED_TOKEN"
    ELSE IF code = <<100>> THEN "INSUFFICIENT_SCOPE"
    ELSE IF code = <<4>> \/ code = <<17>> THEN "RATE_LIMIT"
    ELSE "INVALID_REQUEST"

ProviderKind(code) ==
    IF code = <<190>> THEN "EXPIRED_TOKEN"
    ELSE IF code = <<100>> \/ code = <<200>> THEN "INSUFFICIENT_SCOPE"
    ELSE IF code = <<4>> \/ code = <<17>> THEN "RATE_LIMIT"
    ELSE "INVALID_REQUEST"

\* s || d
OrElse(s, d) == IF s = "" THEN d ELSE s

\* error.message of a raw value: json bodies of the provider carry none
MessageOf(error) == IF error.t = "Error" THEN error.message ELSE ""

\* Mutant of handleInstagramError: the response is looked at before the envelope
handleInstagramError_responseFirst(error, resp) ==
    IF IsApiError(error) THEN Ret(error)
    ELSE IF error.t \in {"null", "undefined"}
    THEN Throw(Error("TypeError", typeErrorMessage))
    ELSE IF resp.t = "response" /\ ~ok(resp)
    THEN Ret(InstagramApiError(
                OrElse(MessageOf(error), "HTTP error " \o ToString(resp.status)),
                "NETWORK_ERROR", <<resp.status>>, ""))
    ELSE IF error.t = "object" /\ error.error # <<>>
    THEN LET igError == error.error[1] IN
         Ret(InstagramApiError(OrElse(igError.message, "Instagram API error"),
                               ProviderKind(igError.code), igError.code,
                               igError.fbtrace_id))
    ELSE Ret(InstagramApiError(OrElse(MessageOf(error), "Unknown error"),
                               "UNKNOWN_ERROR", <<>>, ""))

\* Mutant of handleInstagramError: a classified error is classified again
handleInstagramError_again(error, resp) ==
    IF error.t \in {"null", "undefined"}
    THEN Throw(Error("TypeError", typeErrorMessage))
    ELSE IF error.t = "object" /\ error.error # <<>>
    THEN LET igError == error.error[1] IN
         Ret(InstagramApiError(OrElse(igError.message, "Instagram API error"),
                               ProviderKind(igError.code), igError.code,
                               igError.fbtrace_id))
    ELSE IF resp.t = "response" /\ ~ok(resp)
    THEN Ret(InstagramApiError(
                OrElse(IF error.t \in {"Error", "InstagramApiError"}
                       THEN error.message ELSE "",
                       "HTTP error " \o ToString(resp.status)),
                "NETWORK_ERROR", <<resp.status>>, ""))
    ELSE Ret(InstagramApiError(
                OrElse(IF error.t \in {"Error", "InstagramApiError"}
                       THEN error.message ELSE "", "Unknown error"),
                "UNKNOWN_ERROR", <<>>, ""))

handleInstagramError(error, resp) ==
    IF IsApiError(error) THEN Ret(error)
    ELSE IF error.t \in {"null", "undefined"}
    THEN Throw(Error("TypeError", typeErrorMessage))
    ELSE IF error.t = "object" /\ error.error # <<>>
    THEN LET igError == error.error[1] IN
         Ret(InstagramApiError(OrElse(igError.message, "Instagram API error"),
                               ProviderKind(igError.code), igError.code,
                               igError.fbtrace_id))
    ELSE IF resp.t = "response" /\ ~ok(resp)
    THEN Ret(InstagramApiError(
                OrElse(MessageOf(error), "HTTP error " \o ToString(resp.status)),
                "NETWORK_ERROR", <<resp.status>>, ""))
    ELSE Ret(InstagramApiError(OrElse(MessageOf(error), "Unknown error"),
                               "UNKNOWN_ERROR", <<>>, ""))

----------------------------------------------------------------------------
(* The environment: credential store contents, inputs, provider answers *)

UserFiles ==
    {[t |-> "missing"], [t |-> "invalid"]} \cup
    {[t |-> "object", id |-> i, accessToken |-> a] :
        i \in {"", "17841"}, a \in {"", "IGtok"}}

\* fs.readFileSync + JSON.parse of ../user.json
readUserData(uf) ==
    IF uf.t = "missing"
    THEN Throw(Error("Error", "ENOENT: no such file or directory, open '../user.json'"))
    ELSE IF uf.t = "invalid"
    THEN Throw(Error("SyntaxError", "Unexpected end of JSON input"))
    ELSE Ret(uf)

\* const { id: igUserId, accessToken: userAccessToken } = userData
CredId(uf) == IF uf.t = "object" THEN uf.id ELSE ""

CredToken(uf) == IF uf.t = "object" THEN uf.accessToken ELSE ""

\* Mutant of missingCredentials: a store without accessToken is an INVALID_TOKEN
missingCredentials_invalidToken ==
    InstagramApiError(
        "The user.json file must contain 'id' and 'accessToken' properties.",
        "INVALID_TOKEN", <<>>, "")

missingCredentials ==
    InstagramApiError(
        "The user.json file must contain 'id' and 'accessToken' properties.",
        "INVALID_REQUEST", <<>>, "")

Captions == {"", "hello"}

ImageInputs ==
    {[imageUrl |-> u, caption |-> c] :
        u \in {"https://cdn.example/a.jpg", "http://cdn.example/a.jpg",
               "HTTPS://cdn.example/a.jpg", "ftp://cdn.example/a.jpg", ""},
        c \in Captions}

MediaTypes == {"IMAGE", "VIDEO"}

ItemUrl(k) == "https://cdn.example/m" \o ToString(k)

Item(type, k) == [type |-> type, url |-> ItemUrl(k)]

MediaItemLists ==
    {[k \in 1..Len(ty) |-> Item(ty[k], k)] :
        ty \in UNION {[1..m -> MediaTypes] : m \in 0..TypedLen}}
    \cup {[k \in 1..n |-> Item(IF k % 2 = 1 THEN "IMAGE" ELSE "VIDEO", k)] :
            n \in (TypedLen + 1)..(MaxCarouselItems + ExtraItems)}

CarouselInputs ==
    {[mediaItems |-> m, caption |-> c] : m \in MediaItemLists, c \in Captions}

ReelInputs ==
    {[videoUrl |-> "https://cdn.example/v.mp4", coverUrl |-> "", caption |-> "",
      shareToFeed |-> <<>>],
     [videoUrl |-> "https://cdn.example/v.mp4",
      coverUrl |-> "https://cdn.example/c.jpg", caption |-> "hello",
      shareToFeed |-> <<TRUE>>],
     [videoUrl |-> "https://cdn.example/v.mp4", coverUrl |-> "", caption |-> "",
      shareToFeed |-> <<FALSE>>]}

HttpStatuses == {200, 400, 500}

ProviderCodes == {<<190>>, <<100>>, <<200>>, <<4>>, <<17>>, <<10>>, <<>>}

ProviderMessages == {"", "token expired"}

ProviderTraces == {"", "AbCdEf"}

StatusCodes == {"", "IN_PROGRESS", "FINISHED", "ERROR", "EXPIRED", "PUBLISHED"}

\* Every code with a message and a trace id, and the bare envelopes
Envelopes ==
    {Envelope(c, "token expired", "AbCdEf") : c \in ProviderCodes}
    \cup {Envelope(<<190>>, m, tr) : m \in ProviderMessages, tr \in ProviderTraces}

\* The id the provider gives to what the n-th request of the invocation creates
ProviderId(n) == "90" \o ToString(n)

\* fetch rejects with the FetchError of node-fetch, whose message names the URL
fetchFailed(url) ==
    [t |-> "reject",
     error |-> Error("FetchError",
                     "request to " \o url
                     \o " failed, reason: connect ECONNREFUSED")]

\* The provider sends its error envelopes with status 400; one of them is
\* also seen with a success status
Responses(bodies) ==
    {[t |-> "response", status |-> s, body |-> b, contentType |-> ""] :
        s \in HttpStatuses, b \in bodies}
    \cup {[t |-> "response", status |-> 400, body |-> b, contentType |-> ""] :
            b \in Envelopes}
    \cup {[t |-> "response", status |-> 200,
           body |-> Envelope(<<190>>, "token expired", "AbCdEf"),
           contentType |-> ""]}

\* What fetch may give for a container-create or publish request
PostResults(n, url) ==
    {fetchFailed(url)} \cup
    Responses({NotJson, JsonNull, Data("", ""), Data(ProviderId(n), "")})

\* What fetch may give for a status request on container cid
StatusResults(cid, url) ==
    {fetchFailed(url)} \cup
    {r \in Responses({NotJson, JsonNull} \cup {Data(cid, s) : s \in StatusCodes}) :
        ok(r) \/ r.body.t # "object" \/ r.body.status_code = ""}

ContentTypes ==
    {"", "image/jpeg", "image/jpg", "image/jpeg; charset=binary", "image/png",
     "text/html"}

\* What fetch may give for the HEAD request of the validator
HeadResults(url) ==
    {fetchFailed(url)} \cup
    {[t |-> "response", status |-> s, body |-> NotJson, contentType |-> ct] :
        s \in HttpStatuses, ct \in ContentTypes}

Latencies == {0, SlowLatencyMs}

----------------------------------------------------------------------------
(* Requests *)

Request(method, url, body) == [method |-> method, url |-> url, body |-> body]

mediaUrl(uid) == GRAPH_API_BASE_URL \o "/" \o uid \o "/media"

publishUrl(uid) == GRAPH_API_BASE_URL \o "/" \o uid \o "/media_publish"

statusUrl(cid, token) ==
    GRAPH_API_BASE_URL \o "/" \o cid \o "?fields=status_code&access_token=" \o token

\* containerParams.append(name, value) when value is truthy
Optional(name, value) == IF value = "" THEN {} ELSE {<<name, value>>}

\* Mutant of publishRequest: the credentials are read from user.json again
publishRequest_rereads(uid, token, cid) ==
    Request("POST", publishUrl(CredId(userFile)),
            {<<"creation_id", cid>>, <<"access_token", CredToken(userFile)>>})

publishRequest(uid, token, cid) ==
    Request("POST", publishUrl(uid),
            {<<"creation_id", cid>>, <<"access_token", token>>})

IsPublish(r) == r.method = "POST" /\ EndsWith(r.url, "/media_publish")

IsCreate(r) == r.method = "POST" /\ EndsWith(r.url, "/media")

Param(r, name) == {p[2] : p \in {q \in r.body : q[1] = name}}

\* The status_code a status poll shows: that of a parsed body of a 2xx response
ObservedStatus(fr) ==
    IF fr.t = "response" /\ ok(fr) /\ fr.body.t = "object"
    THEN fr.body.status_code ELSE ""

----------------------------------------------------------------------------
(* Pieces shared by the orchestrators *)

NoOutcome == [t |-> "none"]

NoResponse == [t |-> "none"]

\* A step of an orchestrator: where it goes, what it sends, how it ends
Goes(to, send) ==
    [pc |-> to, failedAt |-> "", outcome |-> NoOutcome, send |-> send]

\* Mutant of Failed: before it throws, the orchestrator asks the provider to
\* delete what it created
Failed_cleanup(step, e) ==
    [pc |-> "done", failedAt |-> step, outcome |-> e,
     send |-> <<[method |-> "DELETE", url |-> GRAPH_API_BASE_URL, body |-> {}]>>]

Failed(step, e) ==
    [pc |-> "done", failedAt |-> step, outcome |-> e, send |-> <<>>]

Returned(result) ==
    [pc |-> "done", failedAt |-> "", outcome |-> result, send |-> <<>>]

PublishResult(postId, status) ==
    [t |-> "result", postId |-> postId, status |-> status]

\* catch (error) { throw handleInstagramError(error) }
Surface(e) ==
    LET h == handleInstagramError(e, undefined) IN h.v

\* Mutant of ReadId: the check of the id is left out
ReadId_noIdCheck(fr, notFound) ==
    IF fr.t = "reject" THEN Throw(fr.error)
    ELSE LET d == json(fr) IN
         IF d.thrown THEN d
         ELSE IF ~ok(fr)
         THEN LET h == handleInstagramError(d.v, fr) IN
              IF h.thrown THEN h ELSE Throw(h.v)
         ELSE IF d.v.t = "null"
         THEN Throw(Error("TypeError",
                          "Cannot destructure property 'id' of 'responseData' as it is null."))
         ELSE Ret(d.v.id)

\* response = await fetch(...); responseData = await response.json();
\* if (!response.ok) throw handleInstagramError(responseData, response);
\* const { id } = responseData; if (!id) throw new InstagramApiError(notFound, UNKNOWN_ERROR)
ReadId(fr, notFound) ==
    IF fr.t = "reject" THEN Throw(fr.error)
    ELSE LET d == json(fr) IN
         IF d.thrown THEN d
         ELSE IF ~ok(fr)
         THEN LET h == handleInstagramError(d.v, fr) IN
              IF h.thrown THEN h ELSE Throw(h.v)
         ELSE IF d.v.t = "null"
         THEN Throw(Error("TypeError",
                          "Cannot destructure property 'id' of 'responseData' as it is null."))
         ELSE IF d.v.id = ""
         THEN Throw(InstagramApiError(notFound, "UNKNOWN_ERROR", <<>>, ""))
         ELSE Ret(d.v.id)

----------------------------------------------------------------------------
(* Image: validateImageUrlForTool and postImageToInstagram *)

\* Mutant of validateScheme: the prefix tested is "http"
validateScheme_http(imageUrl) ==
    IF ~StartsWith(imageUrl, "http")
    THEN Throw(InstagramApiError("Image URL must use HTTPS", "INVALID_REQUEST",
                                 <<>>, ""))
    ELSE Ret(Request("HEAD", imageUrl, {}))

\* validateImageUrlForTool up to its await: the scheme check, then the HEAD request
validateScheme(imageUrl) ==
    IF ~StartsWith(imageUrl, "https://")
    THEN Throw(InstagramApiError("Image URL must use HTTPS", "INVALID_REQUEST",
                                 <<>>, ""))
    ELSE Ret(Request("HEAD", imageUrl, {}))

\* validateImageUrlForTool after its await
validateHead(fr) ==
    IF fr.t = "reject"
    THEN Throw(Surface(fr.error))
    ELSE IF ~ok(fr)
    THEN Throw(InstagramApiError(
                "Image URL not accessible: " \o ToString(fr.status),
                "INVALID_REQUEST", <<>>, ""))
    ELSE IF fr.contentType = "" \/
            (~Includes(fr.contentType, "image/jpeg") /\
             ~Includes(fr.contentType, "image/jpg"))
    THEN Throw(InstagramApiError("Image must be in JPEG format",
                                 "INVALID_REQUEST", <<>>, ""))
    ELSE Ret(TRUE)

imageCreateRequest(uid, token, i) ==
    Request("POST", mediaUrl(uid),
            {<<"image_url", i.imageUrl>>, <<"access_token", token>>}
            \cup Optional("caption", i.caption))

\* Mutant of imageBegin: the URL is validated without a look at the credentials
imageBegin_validateFirst(uf, i) ==
    LET ud == readUserData(uf) IN
    IF ud.thrown THEN Failed("credentials", Surface(ud.v))
    ELSE LET v == validateScheme(i.imageUrl) IN
         IF v.thrown THEN Failed("validate", Surface(v.v))
         ELSE Goes("awaitHead", <<v.v>>)

\* postImageToInstagram from its call to the await of the HEAD request
imageBegin(uf, i) ==
    LET ud == readUserData(uf) IN
    IF ud.thrown THEN Failed("credentials", Surface(ud.v))
    ELSE IF CredId(uf) = "" \/ CredToken(uf) = ""
    THEN Failed("credentials", Surface(missingCredentials))
    ELSE LET v == validateScheme(i.imageUrl) IN
         IF v.thrown THEN Failed("validate", Surface(v.v))
         ELSE Goes("awaitHead", <<v.v>>)

\* ... from the answer to the HEAD request to the await of the container create
imageAfterHead(fr, uid, token, i) ==
    LET v == validateHead(fr) IN
    IF v.thrown THEN Failed("validate", Surface(v.v))
    ELSE Goes("awaitCreate", <<imageCreateRequest(uid, token, i)>>)

\* Mutant of imageAfterCreate: the container is polled once before the publish
imageAfterCreate_pollFirst(fr, uid, token) ==
    LET r == ReadId(fr, "Media container ID not found in response.") IN
    IF r.thrown THEN Failed("create", Surface(r.v))
    ELSE Goes("awaitPublish",
              <<Request("GET", statusUrl(r.v, token), {}),
                publishRequest(uid, token, r.v)>>)

\* ... from the answer to the container create to the await of the publish
imageAfterCreate(fr, uid, token) ==
    LET r == ReadId(fr, "Media container ID not found in response.") IN
    IF r.thrown THEN Failed("create", Surface(r.v))
    ELSE Goes("awaitPublish", <<publishRequest(uid, token, r.v)>>)

\* Mutant of imageAfterPublish: a publish that failed is tried once more
imageAfterPublish_retry(fr) ==
    LET r == ReadId(fr, "Post ID not found in publish response.") IN
    IF r.thrown
    THEN IF Len(requests) < 4
         THEN Goes("awaitPublish",
                   <<publishRequest(igUserId, userAccessToken, containerId)>>)
         ELSE Failed("publish", Surface(r.v))
    ELSE Returned(PublishResult(r.v, "Image posted successfully"))

\* ... from the answer to the publish to the end
imageAfterPublish(fr) ==
    LET r == ReadId(fr, "Post ID not found in publish response.") IN
    IF r.thrown THEN Failed("publish", Surface(r.v))
    ELSE Returned(PublishResult(r.v, "Image posted successfully"))

----------------------------------------------------------------------------
(* Carousel: postCarouselToInstagram *)

CarouselSizeOk(n) == ~(n < MinCarouselItems \/ n > MaxCarouselItems)

childRequest(uid, token, item) ==
    Request("POST", mediaUrl(uid),
            {<<(IF item.type = "IMAGE" THEN "image_url" ELSE "video_url"), item.url>>,
             <<"is_carousel_item", "true">>, <<"access_token", token>>})

parentRequest(uid, token, ids, caption) ==
    Request("POST", mediaUrl(uid),
            {<<"media_type", "CAROUSEL">>, <<"children", JoinComma(ids)>>,
             <<"access_token", token>>} \cup Optional("caption", caption))

\* postCarouselToInstagram from its call to the await of the first child create
carouselBegin(uf, i) ==
    LET ud == readUserData(uf) IN
    IF ud.thrown THEN Failed("credentials", ud.v)
    ELSE IF CredId(uf) = "" \/ CredToken(uf) = ""
    THEN Failed("credentials", missingCredentials)
    ELSE IF ~CarouselSizeOk(Len(i.mediaItems))
    THEN Failed("size",
                InstagramApiError("Carousel must have between 2 and 10 media items.",
                                  "INVALID_REQUEST", <<>>, ""))
    ELSE Goes("awaitChild",
              <<childRequest(CredId(uf), CredToken(uf), i.mediaItems[1])>>)

\* Mutant of carouselAfterChild: the child id is put in front (unshift for push)
carouselAfterChild_unshift(fr, uid, token, i, k, ids) ==
    LET r == ReadId(fr, "Media container ID not found for item "
                        \o i.mediaItems[k].url \o ".") IN
    IF r.thrown THEN [step |-> Failed("child", Surface(r.v)), ids |-> ids, k |-> k]
    ELSE LET pushed == <<r.v>> \o ids IN
         IF k < Len(i.mediaItems)
         THEN [step |-> Goes("awaitChild",
                             <<childRequest(uid, token, i.mediaItems[k + 1])>>),
               ids |-> pushed, k |-> k + 1]
         ELSE [step |-> Goes("awaitParent",
                             <<parentRequest(uid, token, pushed, i.caption)>>),
               ids |-> pushed, k |-> k]

\* Mutant of carouselAfterChild: a failed child is skipped, the loop goes on
carouselAfterChild_skipFailed(fr, uid, token, i, k, ids) ==
    LET r == ReadId(fr, "Media container ID not found for item "
                        \o i.mediaItems[k].url \o ".")
        pushed == IF r.thrown THEN ids ELSE Append(ids, r.v) IN
    IF k < Len(i.mediaItems)
    THEN [step |-> Goes("awaitChild",
                        <<childRequest(uid, token, i.mediaItems[k + 1])>>),
          ids |-> pushed, k |-> k + 1]
    ELSE [step |-> Goes("awaitParent",
                        <<parentRequest(uid, token, pushed, i.caption)>>),
          ids |-> pushed, k |-> k]

\* One turn of the for..of loop, from the answer to the create of item k:
\* the step, and the itemContainerIds after it
carouselAfterChild(fr, uid, token, i, k, ids) ==
    LET r == ReadId(fr, "Media container ID not found for item "
                        \o i.mediaItems[k].url \o ".") IN
    IF r.thrown THEN [step |-> Failed("child", Surface(r.v)), ids |-> ids, k |-> k]
    ELSE LET pushed == Append(ids, r.v) IN
         IF k < Len(i.mediaItems)
         THEN [step |-> Goes("awaitChild",
                             <<childRequest(uid, token, i.mediaItems[k + 1])>>),
               ids |-> pushed, k |-> k + 1]
         ELSE [step |-> Goes("awaitParent",
                             <<parentRequest(uid, token, pushed, i.caption)>>),
               ids |-> pushed, k |-> k]

carouselAfterParent(fr, uid, token) ==
    LET r == ReadId(fr, "Main carousel container ID not found.") IN
    IF r.thrown THEN Failed("parent", Surface(r.v))
    ELSE Goes("awaitPublish", <<publishRequest(uid, token, r.v)>>)

carouselAfterPublish(fr) ==
    LET r == ReadId(fr, "Carousel post ID not found in publish response.") IN
    IF r.thrown THEN Failed("publish", Surface(r.v))
    ELSE Returned(PublishResult(r.v, "Carousel posted successfully"))

----------------------------------------------------------------------------
(* Reel: checkContainerStatus, waitForContainerReady, postReelToInstagram *)

statusRequest(cid, token) == Request("GET", statusUrl(cid, token), {})

checkContainerStatus(fr) ==
    IF fr.t = "reject" THEN Throw(fr.error)
    ELSE LET d == json(fr) IN
         IF d.thrown THEN d
         ELSE IF ~ok(fr)
         THEN LET h == handleInstagramError(d.v, fr) IN
              IF h.thrown THEN h ELSE Throw(h.v)
         ELSE Ret(d.v)

\* The kind of the classified error a status request ends with ("" if none)
PollErrorKind(fr) ==
    LET s == checkContainerStatus(fr) IN
    IF s.thrown /\ IsApiError(s.v) THEN s.v.type ELSE ""

\* Mutant of LoopContinues: the deadline itself still counts as before it
LoopContinues_inclusive(el, max) == el <= max

\* Mutant of LoopContinues: the deadline is put off by one interval
LoopContinues_extended(el, max) == el < max + pollIntervalMs

\* while (Date.now() - startTime < maxWaitTimeMs)
LoopContinues(el, max) == el < max

timedOut ==
    InstagramApiError("Reel container processing timed out.", "UNKNOWN_ERROR",
                      <<>>, "")

\* Mutant of pollTry: PUBLISHED counts as ready, like FINISHED
pollTry_publishedIsReady(fr) ==
    LET s == checkContainerStatus(fr) IN
    IF s.thrown THEN s
    ELSE IF s.v.t = "null"
    THEN Throw(Error("TypeError",
                     "Cannot read properties of null (reading 'status_code')"))
    ELSE IF s.v.status_code \in {"FINISHED", "PUBLISHED"} THEN Ret(TRUE)
    ELSE IF s.v.status_code = "ERROR" \/ s.v.status_code = "EXPIRED"
    THEN Throw(InstagramApiError(
                "Reel container processing failed or expired. Status: "
                    \o s.v.status_code,
                "INVALID_REQUEST", <<>>, ""))
    ELSE Ret(FALSE)

\* Mutant of pollTry: every status but ERROR and EXPIRED counts as ready
pollTry_readyUnlessFailed(fr) ==
    LET s == checkContainerStatus(fr) IN
    IF s.thrown THEN s
    ELSE IF s.v.t = "null"
    THEN Throw(Error("TypeError",
                     "Cannot read properties of null (reading 'status_code')"))
    ELSE IF s.v.status_code = "ERROR" \/ s.v.status_code = "EXPIRED"
    THEN Throw(InstagramApiError(
                "Reel container processing failed or expired. Status: "
                    \o s.v.status_code,
                "INVALID_REQUEST", <<>>, ""))
    ELSE Ret(TRUE)

\* The try block of the loop body
pollTry(fr) ==
    LET s == checkContainerStatus(fr) IN
    IF s.thrown THEN s
    ELSE IF s.v.t = "null"
    THEN Throw(Error("TypeError",
                     "Cannot read properties of null (reading 'status_code')"))
    ELSE IF s.v.status_code = "FINISHED" THEN Ret(TRUE)
    ELSE IF s.v.status_code = "ERROR" \/ s.v.status_code = "EXPIRED"
    THEN Throw(InstagramApiError(
                "Reel container processing failed or expired. Status: "
                    \o s.v.status_code,
                "INVALID_REQUEST", <<>>, ""))
    ELSE Ret(FALSE)

\* Mutant of Rethrown: only a classified NETWORK_ERROR is swallowed
Rethrown_unclassified(e) == ~IsApiError(e) \/ e.type # "NETWORK_ERROR"

\* Mutant of Rethrown: the catch block swallows every error
Rethrown_never(e) == FALSE

\* Mutant of Rethrown: the catch block rethrows every classified error
Rethrown_any(e) == IsApiError(e)

\* The catch block: rethrow a classified error that is not NETWORK_ERROR
Rethrown(e) == IsApiError(e) /\ e.type # "NETWORK_ERROR"

\* One turn of the loop body: return true, throw, or sleep and loop
PollVerdict(fr) ==
    LET b == pollTry(fr) IN
    IF b.thrown
    THEN IF Rethrown(b.v) THEN [kind |-> "throw", v |-> b.v]
         ELSE [kind |-> "sleep", v |-> b.v]
    ELSE IF b.v THEN [kind |-> "return", v |-> TRUE]
    ELSE [kind |-> "sleep", v |-> FALSE]

\* Mutant of SleepDelay: the delay grows with the number of the attempt
SleepDelay_backoff(poll) == poll * (Len(sleeps) + 1)

\* Mutant of SleepDelay: the delay is twice the interval
SleepDelay_doubled(poll) == 2 * poll

\* setTimeout(resolve, pollIntervalMs)
SleepDelay(poll) == poll

\* Mutant of waitLoop: at the deadline the poller returns instead of throwing
waitLoop_readyAtDeadline(el, max, cid, token) ==
    IF LoopContinues(el, max)
    THEN Goes("awaitStatus", <<statusRequest(cid, token)>>)
    ELSE Goes("awaitPublish", <<publishRequest(igUserId, token, cid)>>)

\* The loop condition, then the next status request or the timeout
waitLoop(el, max, cid, token) ==
    IF LoopContinues(el, max)
    THEN Goes("awaitStatus", <<statusRequest(cid, token)>>)
    ELSE Failed("poll", Surface(timedOut))

reelCreateRequest(uid, token, i) ==
    Request("POST", mediaUrl(uid),
            {<<"media_type", "REELS">>, <<"video_url", i.videoUrl>>,
             <<"access_token", token>>}
            \cup Optional("caption", i.caption)
            \cup Optional("cover_url", i.coverUrl)
            \cup (IF i.shareToFeed = <<>> THEN {}
                  ELSE {<<"share_to_feed",
                          IF i.shareToFeed[1] THEN "true" ELSE "false">>}))

\* postReelToInstagram from its call to the await of the container create
reelBegin(uf, i) ==
    LET ud == readUserData(uf) IN
    IF ud.thrown THEN Failed("credentials", ud.v)
    ELSE IF CredId(uf) = "" \/ CredToken(uf) = ""
    THEN Failed("credentials", missingCredentials)
    ELSE Goes("awaitCreate", <<reelCreateRequest(CredId(uf), CredToken(uf), i)>>)

\* ... from the answer to the create into waitForContainerReady
reelAfterCreate(fr, token, max) ==
    LET r == ReadId(fr, "Reel media container ID not found.") IN
    IF r.thrown THEN Failed("create", Surface(r.v))
    ELSE waitLoop(0, max, r.v, token)

\* ... from the answer to a status request: publish, fail, or sleep
reelAfterStatus(fr, uid, token, cid) ==
    LET v == PollVerdict(fr) IN
    IF v.kind = "throw" THEN Failed("poll", Surface(v.v))
    ELSE IF v.kind = "sleep" THEN Goes("sleeping", <<>>)
    ELSE IF ~v.v
    THEN Failed("poll",
                Surface(InstagramApiError(
                    "Reel processing timed out after container creation.",
                    "UNKNOWN_ERROR", <<>>, "")))
    ELSE Goes("awaitPublish", <<publishRequest(uid, token, cid)>>)

reelAfterPublish(fr) ==
    LET r == ReadId(fr, "Post ID not found in Reel publish response.") IN
    IF r.thrown THEN Failed("publish", Surface(r.v))
    ELSE Returned(PublishResult(r.v, "Reel posted successfully"))

----------------------------------------------------------------------------
(* The tool call handler of the server *)

ToolNames ==
    {"instagram-auth", "instagram-post-image", "instagram-post-carousel",
     "instagram-post-reel"}

\* The name of the tool that runs an orchestrator
ToolName(orchestrator) ==
    CASE orchestrator = "image" -> "instagram-post-image"
      [] orchestrator = "carousel" -> "instagram-post-carousel"
      [] orchestrator = "reel" -> "instagram-post-reel"

\* Names the switch has no case for
UnknownNames == {"instagram-post-story", "instagram-delete-post"}

AppIds == {"", "1234567890"}

NoCall == [t |-> "none"]

DefaultRedirectUri == "https://localhost:6001/auth/callback/instagram-standalone"

\* The arguments of an instagram-auth call: none, {} or {redirectUri}
AuthArgs ==
    {undefined, [t |-> "object", redirectUri |-> ""],
     [t |-> "object", redirectUri |-> "https://app.example/cb"]}

\* What makeId(6) may give
MadeIds == {"aB3dE9", "Zx81Qp"}

scopesArray ==
    <<"instagram_business_basic", "instagram_business_content_publish",
      "instagram_business_manage_comments", "instagram_business_manage_insights">>

\* encodeURIComponent, for the characters of the strings it is applied to
\* (the string is encoded half by half)
RECURSIVE encodeURIComponent(_)
encodeURIComponent(str) ==
    IF Len(str) = 0 THEN ""
    ELSE IF Len(str) = 1
    THEN CASE str = ":" -> "%3A"
           [] str = "/" -> "%2F"
           [] str = "," -> "%2C"
           [] OTHER -> str
    ELSE LET h == Len(str) \div 2 IN
         encodeURIComponent(SubSeq(str, 1, h))
         \o encodeURIComponent(SubSeq(str, h + 1, Len(str)))

\* Mutant of getInstagramAuthUrl: the URL is built whatever the application id
getInstagramAuthUrl_noCheck(redirectUri, env, state) ==
    Ret([oauthUrl |->
            "https://www.instagram.com/oauth/authorize?enable_fb_login=0&client_id="
            \o env \o "&redirect_uri=" \o encodeURIComponent(redirectUri)
            \o "&response_type=code&scope="
            \o encodeURIComponent(JoinComma(scopesArray))
            \o "&state=" \o state,
         state |-> state])

\* instagramId = process.env.INSTAGRAM_APP_ID; throws when it is not set
getInstagramAuthUrl(redirectUri, env, state) ==
    IF env = ""
    THEN Throw(Error("Error",
            "Instagram App ID (INSTAGRAM_APP_ID) is not configured in environment variables."))
    ELSE Ret([oauthUrl |->
                "https://www.instagram.com/oauth/authorize?enable_fb_login=0&client_id="
                \o env \o "&redirect_uri=" \o encodeURIComponent(redirectUri)
                \o "&response_type=code&scope="
                \o encodeURIComponent(JoinComma(scopesArray))
                \o "&state=" \o state,
              state |-> state])

\* { content: [{ type: "text", text }] }
ToolSuccess(text) ==
    [t |-> "toolResult", isError |-> FALSE,
     content |-> <<[type |-> "text", text |-> text]>>]

\* { isError: true, content: [{ type: "text", text }] }
ToolFailure(text) ==
    [t |-> "toolResult", isError |-> TRUE,
     content |-> <<[type |-> "text", text |-> text]>>]

\* The handler itself throws e
HandlerThrows(e) == [t |-> "thrown", error |-> e]

\* Mutant of detailedError: the stack of the error is appended to the text
detailedError_withStack(error) ==
    "Error: " \o OrElse(error.message, "Unknown error occurred")
    \o "\n    at " \o error.t \o " (build/index.js)"

\* The text of the catch block: message, then type, status and trace id
detailedError(error) ==
    LET errorMessage == OrElse(error.message, "Unknown error occurred")
        errorType == IF IsApiError(error) THEN error.type ELSE "UNKNOWN_ERROR"
        statusCode == IF IsApiError(error) THEN error.statusCode ELSE <<>>
        fbTraceId == IF IsApiError(error) THEN error.fbTraceId ELSE ""
    IN "Error: " \o errorMessage
       \o (IF errorType # "UNKNOWN_ERROR"
           THEN " (Type: " \o errorType \o ")" ELSE "")
       \o (IF statusCode # <<>> /\ statusCode[1] # 0
           THEN " (Status: " \o ToString(statusCode[1]) \o ")" ELSE "")
       \o (IF fbTraceId # ""
           THEN " (Trace ID: " \o fbTraceId \o ")" ELSE "")

\* Mutant of handleToolError: the error is thrown on to the transport
handleToolError_rethrow(error) == HandlerThrows(error)

\* catch (error: any) { logError(...); ...; return { isError: true, ... } }
handleToolError(error) ==
    IF error.t \in {"null", "undefined"}
    THEN HandlerThrows(Error("TypeError",
            "Cannot read properties of " \o error.t \o " (reading 'message')"))
    ELSE ToolFailure(detailedError(error))

\* The text of the success answer of a publish tool
postedText(name, postId) ==
    (CASE name = "instagram-post-image" -> "Image"
       [] name = "instagram-post-carousel" -> "Carousel"
       [] name = "instagram-post-reel" -> "Reel")
    \o " posted successfully! Post ID: " \o postId

\* Mutant of authCase: the redirect URI of the arguments is passed on as it is
authCase_noDefault(args, env, state) ==
    LET redirectUri == IF args.t = "undefined" THEN "" ELSE args.redirectUri
        result == getInstagramAuthUrl(redirectUri, env, state)
    IN IF result.thrown THEN handleToolError(result.v)
       ELSE ToolSuccess("Instagram OAuth URL: " \o result.v.oauthUrl
                        \o ". State: " \o result.v.state)

\* case "instagram-auth"
authCase(args, env, state) ==
    LET redirectUri == IF args.t = "undefined" THEN "" ELSE args.redirectUri
        result == getInstagramAuthUrl(OrElse(redirectUri, DefaultRedirectUri),
                                      env, state)
    IN IF result.thrown THEN handleToolError(result.v)
       ELSE ToolSuccess("Instagram OAuth URL: " \o result.v.oauthUrl
                        \o ". State: " \o result.v.state)

\* default: throw new Error(`Tool not found: ${name}`)
defaultCase(name) == handleToolError(Error("Error", "Tool not found: " \o name))

\* const { imageUrl, caption } = args as any, with no arguments in the request
destructureUndefined(name) ==
    handleToolError(Error("TypeError",
        "Cannot destructure property '"
        \o (CASE name = "instagram-post-image" -> "imageUrl"
              [] name = "instagram-post-carousel" -> "mediaItems"
              [] name = "instagram-post-reel" -> "videoUrl")
        \o "' of 'args' as it is undefined."))

\* The handler after await post...ToInstagram(...): the result or the catch block
afterOrchestrator(name, settled) ==
    IF settled.t = "result"
    THEN ToolSuccess(postedText(name, settled.postId))
    ELSE handleToolError(settled)

----------------------------------------------------------------------------
(* The state machine *)

Init ==
    /\ userFile \in UserFiles
    /\ tool = "none"
    /\ input = [t |-> "none"]
    /\ pc = "idle"
    /\ igUserId = ""
    /\ userAccessToken = ""
    /\ containerId = ""
    /\ itemContainerIds = <<>>
    /\ itemIndex = 0
    /\ response = NoResponse
    /\ requests = <<>>
    /\ maxWaitMs = maxWaitTimeMs
    /\ pollMs = pollIntervalMs
    /\ elapsed = 0
    /\ sleeps = <<>>
    /\ lastPoll = NoResponse
    /\ polls = 0
    /\ priorInProgress = TRUE
    /\ priorNetworkError = TRUE
    /\ failedAt = ""
    /\ outcome = NoOutcome
    /\ appId \in AppIds
    /\ call = NoCall
    /\ toolResponse = NoResponse
    /\ classified = <<>>
    /\ invocations = <<>>
    /\ issued = 0
    /\ req = NoCall
    /\ res = NoResponse
    /\ getAccessToken = undefined
    /\ longLivedTokenData = undefined

\* The invocation takes the step r
Apply(r) ==
    /\ pc' = r.pc
    /\ failedAt' = r.failedAt
    /\ outcome' = r.outcome
    /\ requests' = requests \o r.send

\* The URL of the awaited request (the last one issued)
LastUrl == requests[Len(requests)].url

\* The awaited request (the last one issued) is answered by fr
Answer(fr) == response' = [to |-> Len(requests), r |-> fr]

\* const { id } = responseData, when the step got that far
IdFrom(fr, old) ==
    LET r == ReadId(fr, "") IN IF r.thrown THEN old ELSE r.v

Call(name, i) ==
    /\ pc = "idle"
    /\ call' = [name |-> ToolName(name), args |-> i]
    /\ tool' = name
    /\ input' = i
    /\ igUserId' = CredId(userFile)
    /\ userAccessToken' = CredToken(userFile)

postImageToInstagram ==
    \E i \in ImageInputs :
        /\ Call("image", i)
        /\ Apply(imageBegin(userFile, i))
        /\ UNCHANGED <<concurrentVars, authServerVars, appId, toolResponse, classified,
                       userFile, containerId, itemContainerIds, itemIndex,
                       response, maxWaitMs, pollMs, elapsed, sleeps, lastPoll, polls, priorInProgress, priorNetworkError>>

imageHeadAnswered ==
    /\ tool = "image" /\ pc = "awaitHead"
    /\ \E fr \in HeadResults(LastUrl) :
        /\ Answer(fr)
        /\ Apply(imageAfterHead(fr, igUserId, userAccessToken, input))
    /\ UNCHANGED <<concurrentVars, authServerVars, appId, call, toolResponse, classified,
                   userFile, tool, input, igUserId, userAccessToken, containerId,
                   itemContainerIds, itemIndex, maxWaitMs, pollMs, elapsed,
                   sleeps, lastPoll, polls, priorInProgress, priorNetworkError>>

imageCreateAnswered ==
    /\ tool = "image" /\ pc = "awaitCreate"
    /\ \E fr \in PostResults(Len(requests), LastUrl) :
        /\ Answer(fr)
        /\ containerId' = IdFrom(fr, containerId)
        /\ Apply(imageAfterCreate(fr, igUserId, userAccessToken))
    /\ UNCHANGED <<concurrentVars, authServerVars, appId, call, toolResponse, classified,
                   userFile, tool, input, igUserId, userAccessToken,
                   itemContainerIds, itemIndex, maxWaitMs, pollMs, elapsed,
                   sleeps, lastPoll, polls, priorInProgress, priorNetworkError>>

imagePublishAnswered ==
    /\ tool = "image" /\ pc = "awaitPublish"
    /\ \E fr \in PostResults(Len(requests), LastUrl) :
        /\ Answer(fr)
        /\ Apply(imageAfterPublish(fr))
    /\ UNCHANGED <<concurrentVars, authServerVars, appId, call, toolResponse, classified,
                   userFile, tool, input, igUserId, userAccessToken, containerId,
                   itemContainerIds, itemIndex, maxWaitMs, pollMs, elapsed,
                   sleeps, lastPoll, polls, priorInProgress, priorNetworkError>>

postCarouselToInstagram ==
    \E i \in CarouselInputs :
        /\ Call("carousel", i)
        /\ Apply(carouselBegin(userFile, i))
        /\ itemIndex' = IF carouselBegin(userFile, i).pc = "awaitChild" THEN 1 ELSE 0
        /\ UNCHANGED <<concurrentVars, authServerVars, appId, toolResponse, classified,
                       userFile, containerId, itemContainerIds, response,
                       maxWaitMs, pollMs, elapsed, sleeps, lastPoll, polls, priorInProgress, priorNetworkError>>

carouselChildAnswered ==
    /\ tool = "carousel" /\ pc = "awaitChild"
    /\ \E fr \in PostResults(Len(requests), LastUrl) :
        LET a == carouselAfterChild(fr, igUserId, userAccessToken, input,
                                    itemIndex, itemContainerIds) IN
        /\ Answer(fr)
        /\ Apply(a.step)
        /\ itemContainerIds' = a.ids
        /\ itemIndex' = a.k
    /\ UNCHANGED <<concurrentVars, authServerVars, appId, call, toolResponse, classified,
                   userFile, tool, input, igUserId, userAccessToken, containerId,
                   maxWaitMs, pollMs, elapsed, sleeps, lastPoll, polls, priorInProgress, priorNetworkError>>

carouselParentAnswered ==
    /\ tool = "carousel" /\ pc = "awaitParent"
    /\ \E fr \in PostResults(Len(requests), LastUrl) :
        /\ Answer(fr)
        /\ containerId' = IdFrom(fr, containerId)
        /\ Apply(carouselAfterParent(fr, igUserId, userAccessToken))
    /\ UNCHANGED <<concurrentVars, authServerVars, appId, call, toolResponse, classified,
                   userFile, tool, input, igUserId, userAccessToken,
                   itemContainerIds, itemIndex, maxWaitMs, pollMs, elapsed,
                   sleeps, lastPoll, polls, priorInProgress, priorNetworkError>>

carouselPublishAnswered ==
    /\ tool = "carousel" /\ pc = "awaitPublish"
    /\ \E fr \in PostResults(Len(requests), LastUrl) :
        /\ Answer(fr)
        /\ Apply(carouselAfterPublish(fr))
    /\ UNCHANGED <<concurrentVars, authServerVars, appId, call, toolResponse, classified,
                   userFile, tool, input, igUserId, userAccessToken, containerId,
                   itemContainerIds, itemIndex, maxWaitMs, pollMs, elapsed,
                   sleeps, lastPoll, polls, priorInProgress, priorNetworkError>>

postReelToInstagram ==
    \E i \in ReelInputs :
        /\ Call("reel", i)
        /\ Apply(reelBegin(userFile, i))
        /\ UNCHANGED <<concurrentVars, authServerVars, appId, toolResponse, classified,
                       userFile, containerId, itemContainerIds, itemIndex,
                       response, maxWaitMs, pollMs, elapsed, sleeps, lastPoll, polls, priorInProgress, priorNetworkError>>

\* The create is answered; waitForContainerReady starts (startTime = Date.now())
reelCreateAnswered ==
    /\ tool = "reel" /\ pc = "awaitCreate"
    /\ \E fr \in PostResults(Len(requests), LastUrl) :
        /\ Answer(fr)
        /\ containerId' = IdFrom(fr, containerId)
        /\ Apply(reelAfterCreate(fr, userAccessToken, maxWaitMs))
    /\ elapsed' = 0
    /\ UNCHANGED <<concurrentVars, authServerVars, appId, call, toolResponse, classified,
                   userFile, tool, input, igUserId, userAccessToken,
                   itemContainerIds, itemIndex, maxWaitMs, pollMs, sleeps,
                   lastPoll, polls, priorInProgress, priorNetworkError>>

\* A status request is answered after some latency
reelStatusAnswered ==
    /\ tool = "reel" /\ pc = "awaitStatus"
    /\ \E fr \in StatusResults(containerId, LastUrl), lat \in Latencies :
        LET step == reelAfterStatus(fr, igUserId, userAccessToken, containerId) IN
        /\ lastPoll' = fr
        /\ polls' = polls + 1
        /\ priorInProgress' =
              (priorInProgress /\
               (polls = 0 \/ ObservedStatus(lastPoll) = "IN_PROGRESS"))
        /\ priorNetworkError' =
              (priorNetworkError /\
               (polls = 0 \/ PollErrorKind(lastPoll) = "NETWORK_ERROR"))
        /\ elapsed' = elapsed + lat
        /\ Apply(step)
        /\ sleeps' = IF step.pc = "sleeping"
                     THEN Append(sleeps, SleepDelay(pollMs)) ELSE sleeps
    /\ UNCHANGED <<concurrentVars, authServerVars, appId, call, toolResponse, classified,
                   userFile, tool, input, igUserId, userAccessToken, containerId,
                   itemContainerIds, itemIndex, response, maxWaitMs, pollMs>>

\* The timer fires: the loop condition is evaluated again
reelWake ==
    /\ tool = "reel" /\ pc = "sleeping"
    /\ elapsed' = elapsed + sleeps[Len(sleeps)]
    /\ Apply(waitLoop(elapsed', maxWaitMs, containerId, userAccessToken))
    /\ UNCHANGED <<concurrentVars, authServerVars, appId, call, toolResponse, classified,
                   userFile, tool, input, igUserId, userAccessToken, containerId,
                   itemContainerIds, itemIndex, response, maxWaitMs, pollMs,
                   sleeps, lastPoll, polls, priorInProgress, priorNetworkError>>

reelPublishAnswered ==
    /\ tool = "reel" /\ pc = "awaitPublish"
    /\ \E fr \in PostResults(Len(requests), LastUrl) :
        /\ Answer(fr)
        /\ Apply(reelAfterPublish(fr))
    /\ UNCHANGED <<concurrentVars, authServerVars, appId, call, toolResponse, classified,
                   userFile, tool, input, igUserId, userAccessToken, containerId,
                   itemContainerIds, itemIndex, maxWaitMs, pollMs, elapsed,
                   sleeps, lastPoll, polls, priorInProgress, priorNetworkError>>

\* A call of instagram-auth: the handler answers in one step
callToolAuth ==
    /\ pc = "idle"
    /\ \E args \in AuthArgs, state \in MadeIds :
        /\ call' = [name |-> "instagram-auth", args |-> args]
        /\ toolResponse' = authCase(args, appId, state)
    /\ tool' = "handler"
    /\ pc' = "done"
    /\ UNCHANGED <<concurrentVars, authServerVars, appId, classified, userFile, input, igUserId, userAccessToken,
                   containerId, itemContainerIds, itemIndex, response, requests,
                   maxWaitMs, pollMs, elapsed, sleeps, lastPoll, polls,
                   priorInProgress, priorNetworkError, failedAt, outcome>>

\* A call of a name the switch has no case for
callToolUnknown ==
    /\ pc = "idle"
    /\ \E name \in UnknownNames, args \in AuthArgs :
        /\ call' = [name |-> name, args |-> args]
        /\ toolResponse' = defaultCase(name)
    /\ tool' = "handler"
    /\ pc' = "done"
    /\ UNCHANGED <<concurrentVars, authServerVars, appId, classified, userFile, input, igUserId, userAccessToken,
                   containerId, itemContainerIds, itemIndex, response, requests,
                   maxWaitMs, pollMs, elapsed, sleeps, lastPoll, polls,
                   priorInProgress, priorNetworkError, failedAt, outcome>>

\* A call of a publish tool with no arguments in the request
callToolNoArguments ==
    /\ pc = "idle"
    /\ \E name \in ToolNames \ {"instagram-auth"} :
        /\ call' = [name |-> name, args |-> undefined]
        /\ toolResponse' = destructureUndefined(name)
    /\ tool' = "handler"
    /\ pc' = "done"
    /\ UNCHANGED <<concurrentVars, authServerVars, appId, classified, userFile, input, igUserId, userAccessToken,
                   containerId, itemContainerIds, itemIndex, response, requests,
                   maxWaitMs, pollMs, elapsed, sleeps, lastPoll, polls,
                   priorInProgress, priorNetworkError, failedAt, outcome>>

\* The orchestrator has settled: the handler resumes and answers
callToolSettled ==
    /\ tool \in {"image", "carousel", "reel"}
    /\ pc = "done"
    /\ toolResponse = NoResponse
    /\ toolResponse' = afterOrchestrator(call.name, outcome)
    /\ UNCHANGED <<concurrentVars, authServerVars, appId, call, classified, userFile, tool, input, pc, igUserId,
                   userAccessToken, containerId, itemContainerIds, itemIndex,
                   response, requests, maxWaitMs, pollMs, elapsed, sleeps,
                   lastPoll, polls, priorInProgress, priorNetworkError, failedAt, outcome>>

Next ==
    \/ postImageToInstagram
    \/ imageHeadAnswered
    \/ imageCreateAnswered
    \/ imagePublishAnswered
    \/ postCarouselToInstagram
    \/ carouselChildAnswered
    \/ carouselParentAnswered
    \/ carouselPublishAnswered
    \/ postReelToInstagram
    \/ reelCreateAnswered
    \/ reelStatusAnswered
    \/ reelWake
    \/ reelPublishAnswered
    \/ callToolAuth
    \/ callToolUnknown
    \/ callToolNoArguments
    \/ callToolSettled

Spec == Init /\ [][Next]_vars

\* Every awaited HTTP request completes, with a response or a failure, every
\* timer fires, and the handler, once its orchestrator has settled, answers
Progress ==
    \/ imageHeadAnswered
    \/ imageCreateAnswered
    \/ imagePublishAnswered
    \/ carouselChildAnswered
    \/ carouselParentAnswered
    \/ carouselPublishAnswered
    \/ reelCreateAnswered
    \/ reelStatusAnswered
    \/ reelWake
    \/ reelPublishAnswered
    \/ callToolSettled

FairSpec == Init /\ [][Next]_vars /\ WF_vars(Progress)

----------------------------------------------------------------------------
(* The error classifier on its own: handleInstagramError applied to a raw    *)
(* value and an optional response, then applied again to what it returned.  *)

\* Already classified errors
ApiErrors ==
    {InstagramApiError(m, ty, sc, tr) :
        m \in {"token expired", "boom"}, ty \in InstagramErrorType,
        sc \in {<<>>, <<400>>}, tr \in ProviderTraces}

\* number, string, boolean: no property error, no property message
Primitives ==
    {[t |-> "number", number |-> v] : v \in {5, 0}}
    \cup {[t |-> "string", string |-> "oops"]}

\* What a caller may pass as the raw error
RawErrors ==
    ApiErrors
    \cup {Error("TypeError", "boom"), Error("Error", "")}
    \cup {JsonNull, undefined}
    \cup Primitives
    \cup {Data("", ""), Data("901", "")}
    \cup {Envelope(c, m, tr) :
            c \in ProviderCodes, m \in ProviderMessages, tr \in ProviderTraces}

\* What a caller may pass as the response: nothing, or a response
OptionalResponses ==
    {undefined} \cup
    {[t |-> "response", status |-> s, body |-> NotJson, contentType |-> ""] :
        s \in HttpStatuses}

\* handleInstagramError(first, resp) where first is handleInstagramError(e, r):
\* when the inner call throws, the outer one is not made
Reclassify(first, resp) ==
    IF first.thrown THEN first ELSE handleInstagramError(first.v, resp)

ClassifierInit ==
    /\ userFile = [t |-> "missing"]
    /\ tool = "classifier"
    /\ input \in [error : RawErrors, response : OptionalResponses]
    /\ pc = "idle"
    /\ igUserId = ""
    /\ userAccessToken = ""
    /\ containerId = ""
    /\ itemContainerIds = <<>>
    /\ itemIndex = 0
    /\ response = NoResponse
    /\ requests = <<>>
    /\ maxWaitMs = maxWaitTimeMs
    /\ pollMs = pollIntervalMs
    /\ elapsed = 0
    /\ sleeps = <<>>
    /\ lastPoll = NoResponse
    /\ polls = 0
    /\ priorInProgress = TRUE
    /\ priorNetworkError = TRUE
    /\ failedAt = ""
    /\ outcome = NoOutcome
    /\ appId = ""
    /\ call = NoCall
    /\ toolResponse = NoResponse
    /\ classified = <<>>
    /\ invocations = <<>>
    /\ issued = 0
    /\ req = NoCall
    /\ res = NoResponse
    /\ getAccessToken = undefined
    /\ longLivedTokenData = undefined

\* handleInstagramError(error, response)
classify ==
    /\ tool = "classifier"
    /\ classified = <<>>
    /\ classified' = <<[error |-> input.error, response |-> input.response,
                        result |-> handleInstagramError(input.error,
                                                        input.response)]>>
    /\ UNCHANGED <<concurrentVars, authServerVars, userFile, tool, input, pc, igUserId, userAccessToken,
                   containerId, itemContainerIds, itemIndex, response, requests,
                   maxWaitMs, pollMs, elapsed, sleeps, lastPoll, polls,
                   priorInProgress, priorNetworkError, failedAt, outcome, appId, call, toolResponse>>

\* handleInstagramError(handleInstagramError(error, response), resp)
reclassify ==
    /\ tool = "classifier"
    /\ Len(classified) = 1
    /\ \E resp \in OptionalResponses :
        classified' =
            Append(classified,
                   [error |-> classified[1].result.v, response |-> resp,
                    result |-> Reclassify(classified[1].result, resp)])
    /\ UNCHANGED <<concurrentVars, authServerVars, userFile, tool, input, pc, igUserId, userAccessToken,
                   containerId, itemContainerIds, itemIndex, response, requests,
                   maxWaitMs, pollMs, elapsed, sleeps, lastPoll, polls,
                   priorInProgress, priorNetworkError, failedAt, outcome, appId, call, toolResponse>>

ClassifierNext == classify \/ reclassify

ClassifierSpec == ClassifierInit /\ [][ClassifierNext]_vars

----------------------------------------------------------------------------
(* Concurrent invocations.  The handler is async: a second tool call is
   taken up while the first is suspended at an await.  Each invocation has
   its own locals (they are consts of the async function); the provider
   gives every container and every post an id it gave to nobody else. *)

\* The invocations in flight at the same time
Invocations == {1, 2}

\* An invocation not yet called, with the locals of an orchestrator
NotCalled ==
    [tool |-> "none", input |-> [t |-> "none"], pc |-> "idle", igUserId |-> "",
     userAccessToken |-> "", containerId |-> "", itemContainerIds |-> <<>>,
     itemIndex |-> 0, requests |-> <<>>, created |-> {}, elapsed |-> 0,
     failedAt |-> "", outcome |-> NoOutcome]

\* The calls made concurrently: one input for each tool
ConcurrentCalls ==
    {[name |-> "image",
      args |-> [imageUrl |-> "https://cdn.example/a.jpg", caption |-> ""]],
     [name |-> "carousel",
      args |-> [mediaItems |-> <<Item("IMAGE", 1), Item("VIDEO", 2)>>,
                caption |-> ""]],
     [name |-> "reel",
      args |-> [videoUrl |-> "https://cdn.example/v.mp4", coverUrl |-> "",
                caption |-> "", shareToFeed |-> <<>>]]}

\* The invocation v takes the step r
Took(v, r) ==
    [v EXCEPT !.pc = r.pc, !.failedAt = r.failedAt, !.outcome = r.outcome,
              !.requests = v.requests \o r.send]

\* An orchestrator is called: it runs to its first await
Started(name, i, uf) ==
    LET r == CASE name = "image" -> imageBegin(uf, i)
               [] name = "carousel" -> carouselBegin(uf, i)
               [] name = "reel" -> reelBegin(uf, i)
    IN Took([NotCalled EXCEPT !.tool = name, !.input = i,
                              !.igUserId = CredId(uf),
                              !.userAccessToken = CredToken(uf),
                              !.itemIndex = IF r.pc = "awaitChild" THEN 1 ELSE 0],
            r)

\* Mutant of OwnContainer: containerId is a variable of the module, which holds
\* the id of the container created last by any invocation
OwnContainer_moduleLevel(v) == ProviderId(issued)

\* const { id: containerId } = containerResponseData: a local of the invocation
OwnContainer(v) == v.containerId

\* The request the invocation v is suspended at
Awaited(v) == v.requests[Len(v.requests)]

\* The invocation v resumes with the answer fr, which came after lat ms
Resumed(v, fr, lat) ==
    LET uid == v.igUserId
        token == v.userAccessToken
        id == ReadId(fr, "")
        w == [v EXCEPT !.created =
                 IF IsCreate(Awaited(v)) /\ ~id.thrown THEN @ \cup {id.v} ELSE @]
    IN CASE v.tool = "image" /\ v.pc = "awaitHead" ->
              Took(w, imageAfterHead(fr, uid, token, v.input))
         [] v.tool = "image" /\ v.pc = "awaitCreate" ->
              [Took(w, imageAfterCreate(fr, uid, token))
                 EXCEPT !.containerId = IdFrom(fr, @)]
         [] v.tool = "image" /\ v.pc = "awaitPublish" ->
              Took(w, imageAfterPublish(fr))
         [] v.tool = "carousel" /\ v.pc = "awaitChild" ->
              LET a == carouselAfterChild(fr, uid, token, v.input, v.itemIndex,
                                          v.itemContainerIds)
              IN [Took(w, a.step) EXCEPT !.itemContainerIds = a.ids,
                                         !.itemIndex = a.k]
         [] v.tool = "carousel" /\ v.pc = "awaitParent" ->
              [Took(w, carouselAfterParent(fr, uid, token))
                 EXCEPT !.containerId = IdFrom(fr, @)]
         [] v.tool = "carousel" /\ v.pc = "awaitPublish" ->
              Took(w, carouselAfterPublish(fr))
         [] v.tool = "reel" /\ v.pc = "awaitCreate" ->
              [Took(w, reelAfterCreate(fr, token, maxWaitTimeMs))
                 EXCEPT !.containerId = IdFrom(fr, @), !.elapsed = 0]
         [] v.tool = "reel" /\ v.pc = "awaitStatus" ->
              [Took(w, reelAfterStatus(fr, uid, token, OwnContainer(v)))
                 EXCEPT !.elapsed = @ + lat]
         [] v.tool = "reel" /\ v.pc = "awaitPublish" ->
              Took(w, reelAfterPublish(fr))

\* The timer of the poller of v fires: the loop condition is evaluated again
Woken(v) ==
    LET el == v.elapsed + SleepDelay(pollIntervalMs) IN
    [Took(v, waitLoop(el, maxWaitTimeMs, OwnContainer(v), v.userAccessToken))
       EXCEPT !.elapsed = el]

\* What the provider may answer to the awaited request r: a success that
\* carries the next id, a provider error, a status of the container asked for
ConcurrentResults(r) ==
    IF r.method = "HEAD"
    THEN {fr \in HeadResults(r.url) :
            fr.t = "response" /\ fr.status = 200 /\ fr.contentType = "image/jpeg"}
    ELSE IF r.method = "POST"
    THEN {fr \in PostResults(issued + 1, r.url) :
            \/ fr.t = "reject"
            \/ fr.status = 200 /\ fr.body = Data(ProviderId(issued + 1), "")
            \/ fr.status = 400
                 /\ fr.body = Envelope(<<100>>, "token expired", "AbCdEf")}
    ELSE {fr \in StatusResults("", r.url) :
            \/ fr.t = "reject"
            \/ ok(fr) /\ fr.body \in {Data("", "FINISHED"), Data("", "IN_PROGRESS"),
                                       Data("", "ERROR")}}

ConcurrentInit ==
    /\ userFile = [t |-> "object", id |-> "17841", accessToken |-> "IGtok"]
    /\ tool = "concurrent"
    /\ input = [t |-> "none"]
    /\ pc = "idle"
    /\ igUserId = ""
    /\ userAccessToken = ""
    /\ containerId = ""
    /\ itemContainerIds = <<>>
    /\ itemIndex = 0
    /\ response = NoResponse
    /\ requests = <<>>
    /\ maxWaitMs = maxWaitTimeMs
    /\ pollMs = pollIntervalMs
    /\ elapsed = 0
    /\ sleeps = <<>>
    /\ lastPoll = NoResponse
    /\ polls = 0
    /\ priorInProgress = TRUE
    /\ priorNetworkError = TRUE
    /\ failedAt = ""
    /\ outcome = NoOutcome
    /\ appId = ""
    /\ call = NoCall
    /\ toolResponse = NoResponse
    /\ classified = <<>>
    /\ invocations = [p \in Invocations |-> NotCalled]
    /\ issued = 0
    /\ req = NoCall
    /\ res = NoResponse
    /\ getAccessToken = undefined
    /\ longLivedTokenData = undefined

\* A tool call arrives and its orchestrator runs to its first await
concurrentCall ==
    /\ tool = "concurrent"
    /\ \E p \in Invocations, c \in ConcurrentCalls :
        /\ invocations[p].pc = "idle"
        /\ invocations' =
              [invocations EXCEPT ![p] = Started(c.name, c.args, userFile)]
    /\ UNCHANGED <<authServerVars, issued, userFile, tool, input, pc, igUserId,
                   userAccessToken, containerId, itemContainerIds, itemIndex,
                   response, requests, maxWaitMs, pollMs, elapsed, sleeps,
                   lastPoll, polls, priorInProgress, priorNetworkError, failedAt, outcome, appId,
                   call, toolResponse, classified>>

\* The provider answers the request one invocation is suspended at
concurrentAnswered ==
    /\ tool = "concurrent"
    /\ \E p \in Invocations :
        LET v == invocations[p] IN
        /\ v.pc \in {"awaitHead", "awaitCreate", "awaitChild", "awaitParent",
                     "awaitStatus", "awaitPublish"}
        /\ \E fr \in ConcurrentResults(Awaited(v)) :
            /\ invocations' =
                  [invocations EXCEPT ![p] = Resumed(v, fr, SlowLatencyMs)]
            /\ issued' = IF Awaited(v).method = "POST" /\ fr.t = "response"
                            /\ fr.status = 200
                         THEN issued + 1 ELSE issued
    /\ UNCHANGED <<authServerVars, userFile, tool, input, pc, igUserId,
                   userAccessToken, containerId, itemContainerIds, itemIndex,
                   response, requests, maxWaitMs, pollMs, elapsed, sleeps,
                   lastPoll, polls, priorInProgress, priorNetworkError, failedAt, outcome, appId,
                   call, toolResponse, classified>>

\* The timer of one sleeping poller fires
concurrentWake ==
    /\ tool = "concurrent"
    /\ \E p \in Invocations :
        /\ invocations[p].pc = "sleeping"
        /\ invocations' = [invocations EXCEPT ![p] = Woken(invocations[p])]
    /\ UNCHANGED <<authServerVars, issued, userFile, tool, input, pc, igUserId,
                   userAccessToken, containerId, itemContainerIds, itemIndex,
                   response, requests, maxWaitMs, pollMs, elapsed, sleeps,
                   lastPoll, polls, priorInProgress, priorNetworkError, failedAt, outcome, appId,
                   call, toolResponse, classified>>

ConcurrentNext == concurrentCall \/ concurrentAnswered \/ concurrentWake

ConcurrentSpec == ConcurrentInit /\ [][ConcurrentNext]_vars

----------------------------------------------------------------------------
(* The OAuth callback server (instagram-auth-server): the callback handler,
   authenticate and the health check.  The server runs on the global fetch of
   Node; the bodies it reads are texts (response.text()), parsed by
   JSON.parse and, in error messages, quoted as they came. *)

\* A member of a JSON object: a string, a number (its digits) or an object
Str(k, v) == [kind |-> "string", k |-> k, v |-> v, o |-> <<>>]

Num(k, v) == [kind |-> "number", k |-> k, v |-> v, o |-> <<>>]

Obj(k, o) == [kind |-> "object", k |-> k, v |-> "", o |-> o]

JsonObject(pairs) == [t |-> "object", pairs |-> pairs]

\* JSON.stringify of the members of an object
RECURSIVE stringifyPairs(_)
stringifyPairs(ps) ==
    IF ps = <<>> THEN ""
    ELSE LET p == ps[1]
             value == CASE p.kind = "string" -> "\"" \o p.v \o "\""
                        [] p.kind = "number" -> p.v
                        [] p.kind = "object" -> "{" \o stringifyPairs(p.o) \o "}"
         IN "\"" \o p.k \o "\":" \o value
            \o (IF Len(ps) > 1 THEN "," \o stringifyPairs(Tail(ps)) ELSE "")

\* JSON.stringify(value)
JSONstringify(value) ==
    IF value.t = "null" THEN "null" ELSE "{" \o stringifyPairs(value.pairs) \o "}"

\* value[key] of a parsed object (and error.message of a member)
NoMember == [kind |-> "undefined", k |-> "", v |-> "", o |-> <<>>]

Lookup(ps, key) ==
    LET hits == {i \in 1..Len(ps) : ps[i].k = key} IN
    IF hits = {} THEN NoMember ELSE ps[CHOOSE i \in hits : TRUE]

Member(value, key) == Lookup(value.pairs, key)

MemberOf(m, key) == IF m.kind = "object" THEN Lookup(m.o, key) ELSE NoMember

\* if (m), m || ...
Truthy(m) ==
    \/ m.kind = "object"
    \/ m.kind = "string" /\ m.v # ""
    \/ m.kind = "number" /\ m.v # "0"

\* `${m}`
StringOf(m) ==
    CASE m.kind = "undefined" -> "undefined"
      [] m.kind = "object" -> "[object Object]"
      [] OTHER -> m.v

\* A member as a property of the object written to user.json ("" when absent)
Property(m) == IF m.kind \in {"string", "number"} THEN m.v ELSE ""

AppSecret == "s3cr3t"

AuthCodes == {"", "AQBx7"}

ShortLivedTokens == {"IGQWRshortA", "IGQWRshortB"}

LongLivedTokens == {"IGQWRlongA", "IGQWRlongB"}

\* What the provider may send as JSON: for the token exchange, ...
TokenExchangeObjects ==
    {JsonObject(<<Str("access_token", tok), Num("user_id", "17841")>>) :
        tok \in ShortLivedTokens}
    \cup {JsonObject(<<Str("error_type", "OAuthException"), Num("code", "400"),
                      Str("error_message", "Invalid platform app")>>),
          JsonObject(<<Obj("error", <<Str("message", "Invalid authorization code")>>)>>),
          JsonObject(<<Str("error", "invalid_grant"),
                      Str("error_description", "This authorization code has expired")>>),
          JsonObject(<<>>)}

\* ... for the exchange of the short-lived token tok, ...
LongLivedObjects(tok) ==
    {JsonObject(<<Str("access_token", long), Str("token_type", "bearer")>>
                \o exp) :
        long \in LongLivedTokens, exp \in {<<>>, <<Num("expires_in", "5183944")>>}}
    \cup {JsonObject(<<Obj("error", <<Str("message", m),
                                     Str("type", "OAuthException"),
                                     Num("code", "190")>>)>>) :
            m \in {"Invalid OAuth access token",
                   "Malformed access token " \o tok}}
    \cup {JsonObject(<<>>)}

\* ... and for the profile read with the long-lived token tok (of one of two
\* users, or without the user_id)
ProfileObjects(tok) ==
    {JsonObject(<<Str("user_id", "17841"), Str("username", "ann")>> \o rest) :
        rest \in {<<>>, <<Str("name", "Ann"),
                         Str("profile_picture_url", "https://cdn.example/p.jpg")>>}}
    \cup {JsonObject(<<Str("user_id", "17999"), Str("username", "bob")>>),
          JsonObject(<<Str("username", "ann")>>)}
    \cup {JsonObject(<<Obj("error", <<Str("message", m),
                                     Str("type", "OAuthException"),
                                     Num("code", "190")>>)>>) :
            m \in {"Unsupported get request",
                   "Malformed access token " \o tok}}

ProviderObjects ==
    TokenExchangeObjects
    \cup UNION {LongLivedObjects(tok) : tok \in ShortLivedTokens \cup {"undefined"}}
    \cup UNION {ProfileObjects(tok) : tok \in LongLivedTokens}

\* JSON.parse(text): the value whose text it is, or a SyntaxError
JSONparse(text) ==
    IF text = "null" THEN Ret(JsonNull)
    ELSE IF \E value \in ProviderObjects : JSONstringify(value) = text
    THEN Ret(CHOOSE value \in ProviderObjects : JSONstringify(value) = text)
    ELSE Throw(Error("SyntaxError", "Unexpected token in JSON at position 0"))

\* The global fetch rejects with a TypeError that does not name the URL
globalFetchFailed == [t |-> "reject", error |-> Error("TypeError", "fetch failed")]

TextResponse(status, text) == [t |-> "response", status |-> status, text |-> text]

HtmlPage == "<html><body>Sorry, something went wrong.</body></html>"

\* What fetch may give for the three requests of authenticate
AccessTokenResults ==
    {globalFetchFailed, TextResponse(200, HtmlPage), TextResponse(500, HtmlPage)}
    \cup {TextResponse(IF Truthy(Member(value, "access_token")) THEN 200 ELSE s,
                       JSONstringify(value)) :
            value \in TokenExchangeObjects, s \in {200, 400}}

LongLivedResults(tok) ==
    {globalFetchFailed, TextResponse(200, HtmlPage), TextResponse(200, "null")}
    \cup {TextResponse(200, "access_token=" \o long \o "&expires_in=5183944") :
            long \in LongLivedTokens}
    \cup {TextResponse(IF Truthy(Member(value, "error")) THEN 400 ELSE 200,
                       JSONstringify(value)) :
            value \in LongLivedObjects(tok)}

ProfileResults(tok) ==
    {globalFetchFailed, TextResponse(500, HtmlPage), TextResponse(200, "null")}
    \cup {TextResponse(IF Truthy(Member(value, "error")) THEN 400 ELSE 200,
                       JSONstringify(value)) :
            value \in ProfileObjects(tok)}

tokenRequest(env, code) ==
    Request("POST", "https://api.instagram.com/oauth/access_token",
            {<<"client_id", env>>, <<"client_secret", AppSecret>>,
             <<"grant_type", "authorization_code">>,
             <<"redirect_uri", DefaultRedirectUri>>, <<"code", code>>})

longLivedRequest(env, tok) ==
    Request("GET", "https://graph.instagram.com/access_token",
            {<<"grant_type", "ig_exchange_token">>, <<"client_id", env>>,
             <<"client_secret", AppSecret>>, <<"access_token", tok>>})

profileRequest(tok) ==
    Request("GET", "https://graph.instagram.com/v21.0/me",
            {<<"fields", "user_id,username,name,profile_picture_url">>,
             <<"access_token", tok>>})

nullMember(key) ==
    Error("TypeError", "Cannot read properties of null (reading '" \o key \o "')")

\* authenticate, step 1: from the answer of the token exchange to getAccessToken
afterTokenExchange(fr) ==
    IF fr.t = "reject" THEN Throw(fr.error)
    ELSE IF ~ok(fr)
    THEN Throw(Error("Error",
            "Instagram API Error during token exchange: " \o fr.text))
    ELSE LET p == JSONparse(fr.text) IN
         IF p.thrown
         THEN Throw(Error("Error",
                "Failed to parse JSON from token exchange response: " \o fr.text))
         ELSE IF p.v.t = "null" THEN Throw(nullMember("error"))
         ELSE IF Truthy(Member(p.v, "error"))
         THEN LET message == MemberOf(Member(p.v, "error"), "message")
                  description == Member(p.v, "error_description")
              IN Throw(Error("Error", "Instagram API Error: " \o
                    (IF Truthy(message) THEN StringOf(message)
                     ELSE IF Truthy(description) THEN StringOf(description)
                     ELSE JSONstringify(p.v))))
         ELSE Ret(p.v)

\* ... step 2: from the answer of the second exchange to longLivedTokenData
afterLongLivedExchange(fr) ==
    IF fr.t = "reject" THEN Throw(fr.error)
    ELSE LET p == JSONparse(fr.text) IN
         IF p.thrown
         THEN Throw(Error("Error",
                "Failed to parse JSON from long-lived token response: " \o fr.text))
         ELSE IF p.v.t = "null" THEN Throw(nullMember("error"))
         ELSE IF Truthy(Member(p.v, "error"))
         THEN Throw(Error("Error", "Failed to exchange for long-lived token: "
                \o StringOf(MemberOf(Member(p.v, "error"), "message"))))
         ELSE IF ~Truthy(Member(p.v, "access_token"))
         THEN Throw(Error("Error", "Failed to get long-lived access token"))
         ELSE Ret(p.v)

\* dayjs().add(59, "days").unix() - dayjs().unix()
FiftyNineDays == 59 * 86400

\* ... step 3: from the answer of the profile request to the user details
afterUserProfile(fr, tokenData) ==
    IF fr.t = "reject" THEN Throw(fr.error)
    ELSE LET p == JSONparse(fr.text) IN
         IF p.thrown
         THEN Throw(Error("Error",
                "Failed to parse JSON from user profile response: " \o fr.text))
         ELSE IF p.v.t = "null" THEN Throw(nullMember("error"))
         ELSE IF Truthy(Member(p.v, "error"))
         THEN Throw(Error("Error", "Failed to fetch user profile: "
                \o StringOf(MemberOf(Member(p.v, "error"), "message"))))
         ELSE Ret([t |-> "object",
                   id |-> Property(Member(p.v, "user_id")),
                   name |-> Property(Member(p.v, "name")),
                   accessToken |-> Property(Member(tokenData, "access_token")),
                   refreshToken |-> Property(Member(tokenData, "access_token")),
                   expiresIn |->
                       IF Truthy(Member(tokenData, "expires_in"))
                       THEN Member(tokenData, "expires_in").v
                       ELSE ToString(FiftyNineDays),
                   picture |-> Property(Member(p.v, "profile_picture_url")),
                   username |-> Property(Member(p.v, "username"))])

\* res.status(400).json({ error })
BadRequest(error) == [status |-> 400, body |-> [error |-> error]]

\* res.status(500).json({ error: "Authentication failed", details: error.message })
ServerError(error) ==
    [status |-> 500,
     body |-> [error |-> "Authentication failed", details |-> error.message]]

\* res.json({ success: true, message, user: { id, username, name, picture } })
Authenticated(userDetails) ==
    [status |-> 200,
     body |-> [success |-> "true",
               message |-> "Authentication successful and user data saved.",
               id |-> userDetails.id, username |-> userDetails.username,
               name |-> userDetails.name, picture |-> userDetails.picture]]

Timestamps == {"2025-06-01T10:00:00.000Z"}

\* res.json({ status: "OK", timestamp })
Healthy(timestamp) ==
    [status |-> 200, body |-> [status |-> "OK", timestamp |-> timestamp]]

AuthServerInit ==
    /\ userFile \in UserFiles
    /\ tool = "authServer"
    /\ input = [t |-> "none"]
    /\ pc = "idle"
    /\ igUserId = ""
    /\ userAccessToken = ""
    /\ containerId = ""
    /\ itemContainerIds = <<>>
    /\ itemIndex = 0
    /\ response = NoResponse
    /\ requests = <<>>
    /\ maxWaitMs = maxWaitTimeMs
    /\ pollMs = pollIntervalMs
    /\ elapsed = 0
    /\ sleeps = <<>>
    /\ lastPoll = NoResponse
    /\ polls = 0
    /\ priorInProgress = TRUE
    /\ priorNetworkError = TRUE
    /\ failedAt = ""
    /\ outcome = NoOutcome
    /\ appId \in AppIds
    /\ call = NoCall
    /\ toolResponse = NoResponse
    /\ classified = <<>>
    /\ invocations = <<>>
    /\ issued = 0
    /\ req = NoCall
    /\ res = NoResponse
    /\ getAccessToken = undefined
    /\ longLivedTokenData = undefined

\* GET /auth/callback/instagram-standalone arrives: 400 without a code, else
\* authenticate runs to the await of the token exchange
callbackReceived ==
    /\ tool = "authServer" /\ pc = "idle"
    /\ \E code \in AuthCodes, state \in MadeIds :
        /\ req' = [path |-> "/auth/callback/instagram-standalone",
                   code |-> code, state |-> state]
        /\ IF code = ""
           THEN /\ res' = BadRequest("Authorization code not provided")
                /\ pc' = "done"
                /\ UNCHANGED requests
           ELSE /\ requests' = <<tokenRequest(IF appId = "" THEN "undefined"
                                              ELSE appId, code)>>
                /\ pc' = "awaitAccessToken"
                /\ UNCHANGED res
    /\ UNCHANGED <<concurrentVars, getAccessToken, longLivedTokenData, userFile,
                   tool, input, igUserId, userAccessToken, containerId,
                   itemContainerIds, itemIndex, response, maxWaitMs, pollMs,
                   elapsed, sleeps, lastPoll, polls, priorInProgress, priorNetworkError, failedAt,
                   outcome, appId, call, toolResponse, classified>>

\* The token exchange is answered
accessTokenAnswered ==
    /\ tool = "authServer" /\ pc = "awaitAccessToken"
    /\ \E fr \in AccessTokenResults :
        LET r == afterTokenExchange(fr) IN
        /\ response' = [to |-> Len(requests), r |-> fr]
        /\ IF r.thrown
           THEN /\ res' = ServerError(r.v)
                /\ pc' = "done"
                /\ UNCHANGED <<requests, getAccessToken>>
           ELSE /\ getAccessToken' = r.v
                /\ requests' =
                      Append(requests,
                             longLivedRequest(IF appId = "" THEN "undefined"
                                              ELSE appId,
                                              StringOf(Member(r.v, "access_token"))))
                /\ pc' = "awaitLongLived"
                /\ UNCHANGED res
    /\ UNCHANGED <<concurrentVars, req, longLivedTokenData, userFile, tool,
                   input, igUserId, userAccessToken, containerId,
                   itemContainerIds, itemIndex, maxWaitMs, pollMs, elapsed,
                   sleeps, lastPoll, polls, priorInProgress, priorNetworkError, failedAt, outcome,
                   appId, call, toolResponse, classified>>

\* The exchange for the long-lived token is answered
longLivedAnswered ==
    /\ tool = "authServer" /\ pc = "awaitLongLived"
    /\ \E fr \in LongLivedResults(StringOf(Member(getAccessToken, "access_token"))) :
        LET r == afterLongLivedExchange(fr) IN
        /\ response' = [to |-> Len(requests), r |-> fr]
        /\ IF r.thrown
           THEN /\ res' = ServerError(r.v)
                /\ pc' = "done"
                /\ UNCHANGED <<requests, longLivedTokenData>>
           ELSE /\ longLivedTokenData' = r.v
                /\ requests' =
                      Append(requests,
                             profileRequest(Member(r.v, "access_token").v))
                /\ pc' = "awaitProfile"
                /\ UNCHANGED res
    /\ UNCHANGED <<concurrentVars, req, getAccessToken, userFile, tool, input,
                   igUserId, userAccessToken, containerId, itemContainerIds,
                   itemIndex, maxWaitMs, pollMs, elapsed, sleeps, lastPoll,
                   polls, priorInProgress, priorNetworkError, failedAt, outcome, appId, call,
                   toolResponse, classified>>

\* The profile request is answered: on success user.json is overwritten (a
\* failure of the write is logged and ignored) and the user is sent back
userProfileAnswered ==
    /\ tool = "authServer" /\ pc = "awaitProfile"
    /\ \E fr \in ProfileResults(Member(longLivedTokenData, "access_token").v),
          written \in BOOLEAN :
        LET r == afterUserProfile(fr, longLivedTokenData) IN
        /\ response' = [to |-> Len(requests), r |-> fr]
        /\ IF r.thrown
           THEN /\ res' = ServerError(r.v)
                /\ UNCHANGED userFile
           ELSE /\ res' = Authenticated(r.v)
                /\ userFile' = IF written THEN r.v ELSE userFile
    /\ pc' = "done"
    /\ UNCHANGED <<concurrentVars, req, getAccessToken, longLivedTokenData,
                   requests, tool, input, igUserId, userAccessToken,
                   containerId, itemContainerIds, itemIndex, maxWaitMs, pollMs,
                   elapsed, sleeps, lastPoll, polls, priorInProgress, priorNetworkError, failedAt,
                   outcome, appId, call, toolResponse, classified>>

\* GET /health
health ==
    /\ tool = "authServer" /\ pc = "idle"
    /\ \E timestamp \in Timestamps :
        /\ req' = [path |-> "/health", code |-> "", state |-> ""]
        /\ res' = Healthy(timestamp)
    /\ pc' = "done"
    /\ UNCHANGED <<concurrentVars, getAccessToken, longLivedTokenData, userFile,
                   tool, input, igUserId, userAccessToken, containerId,
                   itemContainerIds, itemIndex, response, requests, maxWaitMs,
                   pollMs, elapsed, sleeps, lastPoll, polls, priorInProgress, priorNetworkError,
                   failedAt, outcome, appId, call, toolResponse, classified>>

AuthServerNext ==
    \/ callbackReceived
    \/ accessTokenAnswered
    \/ longLivedAnswered
    \/ userProfileAnswered
    \/ health

AuthServerSpec == AuthServerInit /\ [][AuthServerNext]_vars

----------------------------------------------------------------------------
(* waitForContainerReady with other parameters than its defaults: the Reel   *)
(* orchestrator as it runs when the poller is given maxWaitTimeMs and        *)
(* pollIntervalMs from WaitTimes and PollIntervals.                          *)

\* Values of the parameter maxWaitTimeMs = 60000
WaitTimes == {-6000, -1000, 0, 1, 7000, 9000, maxWaitTimeMs}

\* Values of the parameter pollIntervalMs = 3000
PollIntervals == {2000, pollIntervalMs}

PollerInit ==
    /\ userFile = [t |-> "object", id |-> "17841", accessToken |-> "IGtok"]
    /\ tool = "none"
    /\ input = [t |-> "none"]
    /\ pc = "idle"
    /\ igUserId = ""
    /\ userAccessToken = ""
    /\ containerId = ""
    /\ itemContainerIds = <<>>
    /\ itemIndex = 0
    /\ response = NoResponse
    /\ requests = <<>>
    /\ maxWaitMs \in WaitTimes
    /\ pollMs \in PollIntervals
    /\ elapsed = 0
    /\ sleeps = <<>>
    /\ lastPoll = NoResponse
    /\ polls = 0
    /\ priorInProgress = TRUE
    /\ priorNetworkError = TRUE
    /\ failedAt = ""
    /\ outcome = NoOutcome
    /\ appId = ""
    /\ call = NoCall
    /\ toolResponse = NoResponse
    /\ classified = <<>>
    /\ invocations = <<>>
    /\ issued = 0
    /\ req = NoCall
    /\ res = NoResponse
    /\ getAccessToken = undefined
    /\ longLivedTokenData = undefined

PollerNext ==
    \/ postReelToInstagram
    \/ reelCreateAnswered
    \/ reelStatusAnswered
    \/ reelWake
    \/ reelPublishAnswered

PollerSpec == PollerInit /\ [][PollerNext]_vars

----------------------------------------------------------------------------
(* The credential store under the publish tools: while an invocation is in   *)
(* progress the OAuth callback server, another process, authenticates        *)
(* another user and overwrites user.json.  An overwrite after the publish    *)
(* call was issued can reach no request of the invocation and is left out.   *)

\* The record the callback server saves for the second user of the model
OtherUserRecord ==
    afterUserProfile(
        TextResponse(200, JSONstringify(
            JsonObject(<<Str("user_id", "17999"), Str("username", "bob")>>))),
        JsonObject(<<Str("access_token", "IGQWRlongB"),
                     Str("token_type", "bearer")>>)).v

StoreInit ==
    /\ userFile = [t |-> "object", id |-> "17841", accessToken |-> "IGtok"]
    /\ tool = "none"
    /\ input = [t |-> "none"]
    /\ pc = "idle"
    /\ igUserId = ""
    /\ userAccessToken = ""
    /\ containerId = ""
    /\ itemContainerIds = <<>>
    /\ itemIndex = 0
    /\ response = NoResponse
    /\ requests = <<>>
    /\ maxWaitMs = maxWaitTimeMs
    /\ pollMs = pollIntervalMs
    /\ elapsed = 0
    /\ sleeps = <<>>
    /\ lastPoll = NoResponse
    /\ polls = 0
    /\ priorInProgress = TRUE
    /\ priorNetworkError = TRUE
    /\ failedAt = ""
    /\ outcome = NoOutcome
    /\ appId = ""
    /\ call = NoCall
    /\ toolResponse = NoResponse
    /\ classified = <<>>
    /\ invocations = <<>>
    /\ issued = 0
    /\ req = NoCall
    /\ res = NoResponse
    /\ getAccessToken = undefined
    /\ longLivedTokenData = undefined

\* fs.writeFileSync(USER_FILE, JSON.stringify(userDetails, null, 2), "utf8") of
\* the callback server, then its answer, while the invocation is suspended
userFileOverwritten ==
    /\ tool \in {"image", "carousel", "reel"}
    /\ pc \notin {"idle", "awaitPublish", "done"}
    /\ userFile # OtherUserRecord
    /\ userFile' = OtherUserRecord
    /\ res' = Authenticated(OtherUserRecord)
    /\ UNCHANGED <<concurrentVars, req, getAccessToken, longLivedTokenData,
                   tool, input, pc, igUserId, userAccessToken, containerId,
                   itemContainerIds, itemIndex, response, requests, maxWaitMs,
                   pollMs, elapsed, sleeps, lastPoll, polls, priorInProgress,
                   priorNetworkError, failedAt, outcome, appId, call,
                   toolResponse, classified>>

StoreNext ==
    \/ postImageToInstagram
    \/ imageHeadAnswered
    \/ imageCreateAnswered
    \/ imagePublishAnswered
    \/ postCarouselToInstagram
    \/ carouselChildAnswered
    \/ carouselParentAnswered
    \/ carouselPublishAnswered
    \/ postReelToInstagram
    \/ reelCreateAnswered
    \/ reelStatusAnswered
    \/ reelWake
    \/ reelPublishAnswered
    \/ callToolSettled
    \/ userFileOverwritten

StoreSpec == StoreInit /\ [][StoreNext]_vars

----------------------------------------------------------------------------
(* Vocabulary of the properties *)

HasPublish == \E k \in 1..Len(requests) : IsPublish(requests[k])

\* The answer recorded in response is the one to the media_publish call
PublishAnswered == response # NoResponse /\ IsPublish(requests[response.to])

\* An HTTP success status and a non-empty id
GoodAnswer(fr) ==
    fr.t = "response" /\ fr.status \in 200..299 /\ fr.body.t = "object"
    /\ fr.body.id # ""

IsTimeout(e) ==
    IsApiError(e) /\ e.type = "UNKNOWN_ERROR" /\ Includes(e.message, "timed out")

RECURSIVE Sum(_)
Sum(s) == IF Len(s) = 0 THEN 0 ELSE s[1] + Sum(Tail(s))

\* Time spent waiting for the answers to the status requests
Latency == elapsed - Sum(sleeps)

\* Every status poll so far showed IN_PROGRESS
AllInProgress ==
    priorInProgress /\ (polls = 0 \/ ObservedStatus(lastPoll) = "IN_PROGRESS")

\* The polls showed IN_PROGRESS (polls - 1 times), then FINISHED
InProgressThenFinished ==
    polls >= 1 /\ priorInProgress /\ ObservedStatus(lastPoll) = "FINISHED"

\* Every status poll so far ended with a classified NETWORK_ERROR
AllNetworkError ==
    /\ polls >= 1 /\ priorNetworkError
    /\ PollErrorKind(lastPoll) = "NETWORK_ERROR"

\* The most recent status poll was answered 2xx with a JSON object
PollSucceeded ==
    /\ lastPoll # NoResponse /\ lastPoll.t = "response" /\ ok(lastPoll)
    /\ lastPoll.body.t = "object"

\* The status requests answered so far took no time: the time elapsed is that
\* of the sleeps that have ended
NoLatency ==
    elapsed = Sum(sleeps) - (IF pc = "sleeping" THEN sleeps[Len(sleeps)] ELSE 0)

\* waitForContainerReady was called: the create gave a container id
PollerCalled == tool = "reel" /\ containerId # ""

\* ... and has returned or thrown
PollerEnded == PollerCalled /\ pc \in {"awaitPublish", "done"}

\* The status requests issued so far
StatusRequests == {k \in 1..Len(requests) : requests[k].method = "GET"}

\* Math.ceil(a / b) for b > 0
CeilDiv(a, b) == -((-a) \div b)

\* The most recent status poll threw an exception that is not a classified
\* error: fetch rejected, the body was not JSON, or a member of null was read
PollThrewUnclassified ==
    /\ polls >= 1
    /\ pollTry(lastPoll).thrown /\ ~IsApiError(pollTry(lastPoll).v)

\* The raw value e carries a provider error envelope: {error: {...}}
HasEnvelope(e) == e.t = "object" /\ e.error # <<>>

\* A response was passed and its status is not a success status
NonSuccess(resp) == resp.t = "response" /\ ~(resp.status \in 200..299)

\* The provider response the failed step of the invocation was resumed with
FailingResponse == IF failedAt = "poll" THEN lastPoll ELSE response.r

\* The kinds of the taxonomy but INVALID_TOKEN
ProducedKinds == InstagramErrorType \ {"INVALID_TOKEN"}

\* What the step that received the answer recorded in response made of it
Received ==
    IF requests[response.to].method = "HEAD"
    THEN validateHead(response.r) ELSE ReadId(response.r, "")

\* The positions in requests of the media_publish calls, of the creates of
\* carousel children, and of the other container creates
PublishCalls == {k \in 1..Len(requests) : IsPublish(requests[k])}

ChildCreates ==
    {k \in 1..Len(requests) :
        IsCreate(requests[k]) /\ Param(requests[k], "is_carousel_item") # {}}

ContainerCreates ==
    {k \in 1..Len(requests) :
        IsCreate(requests[k]) /\ Param(requests[k], "is_carousel_item") = {}}

\* The callback server has answered the callback with the success response
AnsweredSuccess ==
    /\ tool = "authServer" /\ res # NoResponse /\ res.status = 200
    /\ "message" \in DOMAIN res.body
    /\ res.body.message = "Authentication successful and user data saved."

Orchestrators == {"image", "carousel", "reel"}

\* fr is a response whose body is {error: {code: 190, ...}}
IsExpiredTokenBody(fr) ==
    /\ fr.t = "response"
    /\ fr.body.t = "object"
    /\ fr.body.error # <<>>
    /\ fr.body.error[1].code = <<190>>

\* fr is a response with a non-2xx status and a body that is not JSON
IsUnparsableFailure(fr) ==
    fr.t = "response" /\ ~(fr.status \in 200..299) /\ fr.body.t = "unparsable"

RECURSIVE SplitComma(_)
SplitComma(s) ==
    IF \E i \in 1..Len(s) : SubSeq(s, i, i) = ","
    THEN LET i == CHOOSE i \in 1..Len(s) :
                    /\ SubSeq(s, i, i) = ","
                    /\ \A j \in 1..(i - 1) : SubSeq(s, j, j) # ","
         IN <<SubSeq(s, 1, i - 1)>> \o SplitComma(SubSeq(s, i + 1, Len(s)))
    ELSE <<s>>

----------------------------------------------------------------------------
(* Properties *)

\* C1: in the Reel orchestrator a media_publish request is issued only after
\* the most recent status poll of the container created by this invocation
\* showed FINISHED, with that container as creation_id; when the poller fails
\* no media_publish request is issued.
C1_PublishOnlyAfterFinished ==
    tool = "reel" =>
        /\ \A k \in 1..Len(requests) :
              IsPublish(requests[k]) =>
                  /\ k = polls + 2
                  /\ polls >= 1
                  /\ ObservedStatus(lastPoll) = "FINISHED"
                  /\ response.to = 1 =>
                        (GoodAnswer(response.r) /\ response.r.body.id = containerId)
                  /\ containerId = ProviderId(1)
                  /\ requests[k - 1].method = "GET"
                  /\ requests[k - 1].url = statusUrl(containerId, userAccessToken)
                  /\ Param(requests[k], "creation_id") = {containerId}
        /\ failedAt = "poll" => ~HasPublish

C1_Witness == tool = "reel" /\ pc = "awaitPublish" /\ polls >= 3

\* C2: a PublishResult is returned only when the media_publish call was
\* answered with an HTTP success status and a non-empty id, which is its
\* postId, and its status is not empty; a media_publish answer that is
\* non-2xx or has no id ends the invocation with an InstagramApiError.
C2_ResultOnlyFromGoodPublish ==
    /\ outcome.t = "result" =>
          /\ pc = "done"
          /\ PublishAnswered
          /\ GoodAnswer(response.r)
          /\ outcome.postId = response.r.body.id
          /\ outcome.postId # ""
          /\ outcome.status # ""
    /\ (PublishAnswered /\ response.r.t = "response" /\ ~GoodAnswer(response.r)) =>
          /\ pc = "done"
          /\ IsApiError(outcome)

C2_Witness == tool = "carousel" /\ outcome.t = "result"

\* C3: waitForContainerReady returns true only in the step in which a status
\* poll shows FINISHED; when the loop condition finds maxWaitMs elapsed the
\* poller fails with the UNKNOWN_ERROR 'timed out' error and issues nothing.
C3_ReadyOnlyOnFinished ==
    [][tool = "reel" =>
        /\ pc' = "awaitPublish" =>
              /\ pc = "awaitStatus"
              /\ ObservedStatus(lastPoll') = "FINISHED"
              /\ polls' = polls + 1
        /\ (pc = "sleeping" /\ elapsed' >= maxWaitMs) =>
              /\ pc' = "done"
              /\ IsTimeout(outcome')
              /\ requests' = requests
        /\ (pc # "done" /\ IsTimeout(outcome')) =>
              /\ pc = "sleeping"
              /\ elapsed' >= maxWaitMs]_vars

C3_Witness ==
    tool = "reel" /\ failedAt = "poll" /\ IsTimeout(outcome) /\ polls >= 1

\* C4 (as stated): after k polls that showed IN_PROGRESS, with
\* k * pollIntervalMs < maxWaitMs, the poller has not timed out, and when
\* FINISHED follows it returns before maxWaitMs has elapsed.
C4_Original ==
    tool = "reel" =>
        /\ (failedAt = "poll" /\ IsTimeout(outcome) /\ AllInProgress) =>
              ~(polls * pollMs < maxWaitMs)
        /\ (HasPublish /\ InProgressThenFinished
            /\ (polls - 1) * pollMs < maxWaitMs) =>
              elapsed < maxWaitMs

\* C4 (amended): after k polls that showed IN_PROGRESS the poller times out
\* only if k * pollIntervalMs plus the time the status requests took reaches
\* maxWaitMs; when FINISHED follows it has returned after exactly k + 1 polls
\* and k sleeps of pollIntervalMs, before maxWaitMs when the requests took no time.
C4_Amended ==
    tool = "reel" =>
        /\ (failedAt = "poll" /\ IsTimeout(outcome) /\ AllInProgress) =>
              polls * pollMs + Latency >= maxWaitMs
        /\ (HasPublish /\ InProgressThenFinished) =>
              /\ Len(requests) = polls + 2
              /\ Sum(sleeps) = (polls - 1) * pollMs
              /\ Latency = 0 => elapsed < maxWaitMs

C4_Witness ==
    /\ tool = "reel" /\ HasPublish /\ InProgressThenFinished
    /\ polls = 3 /\ elapsed = 2 * pollIntervalMs

\* C5: a status poll that shows ERROR or EXPIRED ends the poller at once with
\* an INVALID_REQUEST error naming the status: no sleep and no request follow.
C5_TerminalFailure ==
    (tool = "reel" /\ ObservedStatus(lastPoll) \in {"ERROR", "EXPIRED"}) =>
        /\ pc = "done"
        /\ failedAt = "poll"
        /\ IsApiError(outcome)
        /\ outcome.type = "INVALID_REQUEST"
        /\ EndsWith(outcome.message, "Status: " \o ObservedStatus(lastPoll))
        /\ Len(requests) = polls + 1
        /\ requests[Len(requests)].method = "GET"
        /\ Len(sleeps) = polls - 1

C5_Witness ==
    tool = "reel" /\ ObservedStatus(lastPoll) = "EXPIRED" /\ polls >= 2

\* C6: a status request that ends with a classified NETWORK_ERROR does not end
\* the poller: it sleeps, then polls again unless the deadline has passed; one
\* that ends with a classified error of another kind ends the invocation with
\* that error, with no sleep and no request after it.
C6_TransientOrFatal ==
    (tool = "reel" /\ lastPoll # NoResponse) =>
        LET kind == PollErrorKind(lastPoll) IN
        /\ kind = "NETWORK_ERROR" =>
              \/ pc = "sleeping" /\ Len(sleeps) = polls /\ Len(requests) = polls + 1
              \/ pc = "awaitStatus" /\ Len(requests) = polls + 2
                 /\ elapsed < maxWaitMs
              \/ pc = "done" /\ IsTimeout(outcome) /\ elapsed >= maxWaitMs
                 /\ Len(requests) = polls + 1
        /\ kind \notin {"", "NETWORK_ERROR"} =>
              /\ pc = "done"
              /\ failedAt = "poll"
              /\ IsApiError(outcome)
              /\ outcome.type = kind
              /\ Len(requests) = polls + 1
              /\ Len(sleeps) = polls - 1

C6_Witness ==
    /\ tool = "reel" /\ pc = "awaitStatus" /\ lastPoll # NoResponse
    /\ PollErrorKind(lastPoll) = "NETWORK_ERROR"

\* C7 (as stated): a carousel call with fewer than 2 or more than 10 items
\* fails with an INVALID_REQUEST error and issues no HTTP call.
C7_Original ==
    (tool = "carousel"
     /\ (Len(input.mediaItems) < 2 \/ Len(input.mediaItems) > 10)) =>
        /\ pc = "done"
        /\ IsApiError(outcome)
        /\ outcome.type = "INVALID_REQUEST"
        /\ requests = <<>>

\* C8: the child containers of a carousel are created one after the other in
\* input order, each request issued after the answer to the one before, and
\* the children parameter of the parent is the comma-joined list of the ids
\* returned for the items, in input order.
C8_ChildrenInInputOrder ==
    tool = "carousel" =>
        LET items == input.mediaItems
            n == Len(items) IN
        /\ \A k \in 1..Len(requests) :
              k <= n =>
                  /\ IsCreate(requests[k])
                  /\ Param(requests[k], "is_carousel_item") = {"true"}
                  /\ Param(requests[k],
                           IF items[k].type = "IMAGE" THEN "image_url"
                           ELSE "video_url") = {items[k].url}
                  /\ Len(itemContainerIds) >= k - 1
                  /\ k >= 2 => response.to >= k - 1
        /\ Len(requests) <= n => Len(requests) <= Len(itemContainerIds) + 1
        /\ \A k \in 1..Len(requests) :
              k = n + 1 =>
                  /\ Param(requests[k], "media_type") = {"CAROUSEL"}
                  /\ \E c \in Param(requests[k], "children") :
                        SplitComma(c) = [j \in 1..n |-> ProviderId(j)]
                  /\ itemContainerIds = [j \in 1..n |-> ProviderId(j)]

C8_Witness ==
    /\ tool = "carousel" /\ Len(requests) = 4
    /\ Len(input.mediaItems) = 3
    /\ input.mediaItems[1].type = "IMAGE"
    /\ input.mediaItems[2].type = "VIDEO"
    /\ input.mediaItems[3].type = "IMAGE"

\* C9: when the create of child i is answered with a failure (no answer, a
\* non-2xx status or no id) the carousel call fails with an error; the only
\* requests it has issued are the creates of items 1..i: no later child, no
\* parent, no publish, no clean-up of the children already created.
C9_ChildFailureAborts ==
    tool = "carousel" =>
        /\ (response # NoResponse /\ response.to <= Len(input.mediaItems)
            /\ ~GoodAnswer(response.r)) =>
              /\ pc = "done"
              /\ failedAt = "child"
              /\ IsApiError(outcome)
        /\ failedAt = "child" =>
              /\ pc = "done"
              /\ ~GoodAnswer(response.r)
              /\ response.to = itemIndex
              /\ Len(requests) = itemIndex
              /\ Len(itemContainerIds) = itemIndex - 1
              /\ \A k \in 1..Len(requests) :
                    /\ requests[k].method = "POST"
                    /\ Param(requests[k], "is_carousel_item") = {"true"}
                    /\ ~IsPublish(requests[k])

C9_Witness ==
    /\ tool = "carousel" /\ failedAt = "child"
    /\ itemIndex = 3 /\ Len(itemContainerIds) = 2

\* C10: for an image URL that does not start with 'https://' the validator
\* throws INVALID_REQUEST without a HEAD request, and the image orchestrator
\* ends having issued no request at all.
C10_NonHttpsRejected ==
    /\ \A i \in ImageInputs :
          ~(Len(i.imageUrl) >= 8 /\ SubSeq(i.imageUrl, 1, 8) = "https://") =>
              /\ validateScheme(i.imageUrl).thrown
              /\ validateScheme(i.imageUrl).v.type = "INVALID_REQUEST"
    /\ (tool = "image"
        /\ ~(Len(input.imageUrl) >= 8 /\ SubSeq(input.imageUrl, 1, 8) = "https://")) =>
          /\ pc = "done"
          /\ requests = <<>>
          /\ IsApiError(outcome)
          /\ failedAt = "validate" =>
                /\ outcome.type = "INVALID_REQUEST"
                /\ outcome.message = "Image URL must use HTTPS"

C10_Witness ==
    /\ tool = "image" /\ failedAt = "validate" /\ requests = <<>>
    /\ input.imageUrl = "http://cdn.example/a.jpg"

\* C11 (as stated): whenever the image validator fails, at the scheme check
\* or on any outcome of the HEAD request (a non-success status, a missing or
\* non-JPEG content-type, no answer at all), the failure is an
\* InstagramApiError of kind INVALID_REQUEST.
C11_Original ==
    (tool = "image" /\ failedAt = "validate") =>
        /\ IsApiError(outcome)
        /\ outcome.type = "INVALID_REQUEST"

\* C12: the image orchestrator issues the HEAD request of the validator, then
\* one container create, then one media_publish whose creation_id is the id
\* the create returned, and no status request; when the publish returns id P
\* its result is {postId: P, status: 'Image posted successfully'}.
C12_ImagePipeline ==
    tool = "image" =>
        /\ Len(requests) <= 3
        /\ \A k \in 1..Len(requests) :
              /\ k = 1 => requests[k] = Request("HEAD", input.imageUrl, {})
              /\ k = 2 =>
                    /\ IsCreate(requests[k])
                    /\ requests[k].url = mediaUrl(igUserId)
                    /\ Param(requests[k], "image_url") = {input.imageUrl}
                    /\ Param(requests[k], "caption") =
                          (IF input.caption = "" THEN {} ELSE {input.caption})
              /\ k = 3 =>
                    /\ IsPublish(requests[k])
                    /\ requests[k].url = publishUrl(igUserId)
                    /\ Param(requests[k], "creation_id") = {ProviderId(2)}
                    /\ containerId = ProviderId(2)
                    /\ response.to >= 2
                    /\ response.to = 2 =>
                          (GoodAnswer(response.r)
                           /\ response.r.body.id = ProviderId(2))
        /\ outcome.t = "result" =>
              /\ Len(requests) = 3
              /\ response.to = 3
              /\ outcome = PublishResult(response.r.body.id,
                                         "Image posted successfully")
              /\ outcome.postId = ProviderId(3)

C12_Witness ==
    /\ tool = "image" /\ outcome.t = "result"
    /\ Param(requests[3], "creation_id") = {"902"}
    /\ outcome.postId = "903"

\* C13: for every raw payload that carries a provider error envelope, and
\* whatever response is passed, handleInstagramError returns an error whose
\* kind is EXPIRED_TOKEN for code 190, INSUFFICIENT_SCOPE for 100 and 200,
\* RATE_LIMIT for 4 and 17, and INVALID_REQUEST for any other code.
C13_CodeToKind ==
    \A k \in 1..Len(classified) :
        LET c == classified[k] IN
        (c.error.t = "object" /\ c.error.error # <<>>) =>
            LET code == c.error.error[1].code IN
            /\ ~c.result.thrown
            /\ IsApiError(c.result.v)
            /\ code = <<190>> => c.result.v.type = "EXPIRED_TOKEN"
            /\ code \in {<<100>>, <<200>>} => c.result.v.type = "INSUFFICIENT_SCOPE"
            /\ code \in {<<4>>, <<17>>} => c.result.v.type = "RATE_LIMIT"
            /\ code \notin {<<190>>, <<100>>, <<200>>, <<4>>, <<17>>} =>
                  c.result.v.type = "INVALID_REQUEST"

C13_Witness ==
    /\ Len(classified) = 1
    /\ classified[1].error = Envelope(<<200>>, "token expired", "AbCdEf")
    /\ classified[1].response.t = "response"
    /\ classified[1].response.status = 500
    /\ classified[1].result.v.type = "INSUFFICIENT_SCOPE"

\* C14 (as stated): handleInstagramError never throws: for every raw value
\* (null, undefined, a primitive, an object without message, ...) and every
\* optional response it returns an InstagramApiError.
C14_Original ==
    \A k \in 1..Len(classified) :
        /\ ~classified[k].result.thrown
        /\ IsApiError(classified[k].result.v)

\* C15: classifying again what the classifier gave changes nothing: whatever
\* response is passed to the second call, its outcome is that of the first
\* call (the same kind, message, status and trace id), and an error that was
\* classified before the first call is returned as it is.
C15_Idempotent ==
    /\ Len(classified) >= 1 =>
          (IsApiError(classified[1].error) =>
              classified[1].result = Ret(classified[1].error))
    /\ Len(classified) = 2 =>
          /\ classified[2].result = classified[1].result
          /\ ~classified[1].result.thrown =>
                /\ classified[2].result.v.type = classified[1].result.v.type
                /\ classified[2].result.v.message = classified[1].result.v.message
                /\ classified[2].result.v.statusCode
                      = classified[1].result.v.statusCode
                /\ classified[2].result.v.fbTraceId
                      = classified[1].result.v.fbTraceId

C15_Witness ==
    /\ Len(classified) = 2
    /\ classified[1].error = Envelope(<<190>>, "token expired", "AbCdEf")
    /\ classified[1].response = undefined
    /\ classified[2].response.t = "response"
    /\ classified[2].response.status = 500
    /\ classified[2].result.v.type = "EXPIRED_TOKEN"

\* C16 (as stated): every failure of an orchestrator reaches its caller as an
\* InstagramApiError with a kind of the taxonomy, never as a raw exception
\* (not for a credential store that cannot be read or parsed either).
C16_Original ==
    (tool \in Orchestrators /\ pc = "done" /\ outcome.t # "result") =>
        /\ IsApiError(outcome)
        /\ outcome.type \in InstagramErrorType

\* C17 (as stated): when the answer to a container create, a status poll, a
\* parent create or a publish has the body {error: {code: 190, message: M}},
\* the invocation fails with an EXPIRED_TOKEN error whose message is M and
\* whose trace id is the fbtrace_id of the body.
C17_Original ==
    /\ (response # NoResponse /\ IsExpiredTokenBody(response.r)) =>
          /\ pc = "done"
          /\ IsApiError(outcome)
          /\ outcome.type = "EXPIRED_TOKEN"
          /\ outcome.message = response.r.body.error[1].message
          /\ outcome.fbTraceId = response.r.body.error[1].fbtrace_id
    /\ (lastPoll # NoResponse /\ IsExpiredTokenBody(lastPoll)) =>
          /\ pc = "done"
          /\ IsApiError(outcome)
          /\ outcome.type = "EXPIRED_TOKEN"
          /\ outcome.message = lastPoll.body.error[1].message
          /\ outcome.fbTraceId = lastPoll.body.error[1].fbtrace_id

\* C17 (amended): when such an answer has a non-2xx status the invocation
\* fails with an EXPIRED_TOKEN error whose trace id is the fbtrace_id of the
\* body and whose message is M, or 'Instagram API error' when M is empty.
C17_Amended ==
    /\ (response # NoResponse /\ IsExpiredTokenBody(response.r)
        /\ ~ok(response.r)) =>
          LET igError == response.r.body.error[1] IN
          /\ pc = "done"
          /\ failedAt \in {"create", "child", "parent", "publish"}
          /\ IsApiError(outcome)
          /\ outcome.type = "EXPIRED_TOKEN"
          /\ igError.message # "" => outcome.message = igError.message
          /\ igError.message = "" => outcome.message = "Instagram API error"
          /\ outcome.fbTraceId = igError.fbtrace_id
    /\ (lastPoll # NoResponse /\ IsExpiredTokenBody(lastPoll) /\ ~ok(lastPoll)) =>
          LET igError == lastPoll.body.error[1] IN
          /\ pc = "done"
          /\ failedAt = "poll"
          /\ IsApiError(outcome)
          /\ outcome.type = "EXPIRED_TOKEN"
          /\ igError.message # "" => outcome.message = igError.message
          /\ igError.message = "" => outcome.message = "Instagram API error"
          /\ outcome.fbTraceId = igError.fbtrace_id

C17_Witness ==
    /\ tool = "reel" /\ failedAt = "poll" /\ polls >= 2
    /\ IsExpiredTokenBody(lastPoll)
    /\ outcome.type = "EXPIRED_TOKEN"
    /\ outcome.message = "token expired"
    /\ outcome.fbTraceId = "AbCdEf"

\* C18 (as stated): when a container create or a publish is answered with a
\* non-2xx status and a body that is not valid JSON, the invocation fails with
\* a NETWORK_ERROR error that carries that HTTP status.
C18_Original ==
    (tool \in Orchestrators /\ response # NoResponse
     /\ requests[response.to].method = "POST"
     /\ IsUnparsableFailure(response.r)) =>
        /\ pc = "done"
        /\ IsApiError(outcome)
        /\ outcome.type = "NETWORK_ERROR"
        /\ outcome.statusCode = <<response.r.status>>

\* C19: when the record of the credential store lacks id or accessToken, the
\* image, carousel and Reel orchestrators fail with the INVALID_REQUEST error
\* about user.json and issue no request: no HEAD, no create, no poll, no publish.
C19_MissingCredentials ==
    (tool \in Orchestrators /\ userFile.t = "object"
     /\ (userFile.id = "" \/ userFile.accessToken = "")) =>
        /\ pc = "done"
        /\ failedAt = "credentials"
        /\ IsApiError(outcome)
        /\ outcome.type = "INVALID_REQUEST"
        /\ outcome.message =
              "The user.json file must contain 'id' and 'accessToken' properties."
        /\ requests = <<>>
        /\ response = NoResponse
        /\ polls = 0

C19_Witness ==
    /\ tool = "image" /\ pc = "done"
    /\ userFile = [t |-> "object", id |-> "17841", accessToken |-> ""]
    /\ input.imageUrl = "https://cdn.example/a.jpg"

\* C20: the tool call handler never throws and answers once: its answer is
\* {content: [text]} or {isError: true, content: [text]} with one text item,
\* isError exactly when the orchestrator did not return a result, isError for
\* a name that is no tool; a settled orchestrator is always answered for, and
\* nothing happens after the answer.
C20_OneToolResponse ==
    /\ [](toolResponse # NoResponse =>
            /\ toolResponse.t = "toolResult"
            /\ toolResponse.isError \in BOOLEAN
            /\ Len(toolResponse.content) = 1
            /\ toolResponse.content[1].type = "text"
            /\ Len(toolResponse.content[1].text) > 0
            /\ pc = "done")
    /\ []((call # NoCall /\ call.name \notin ToolNames) =>
            /\ toolResponse # NoResponse
            /\ toolResponse.isError)
    /\ []((tool \in Orchestrators /\ toolResponse # NoResponse) =>
            (toolResponse.isError <=> outcome.t # "result"))
    /\ []((pc = "done" /\ toolResponse = NoResponse) => ENABLED callToolSettled)
    /\ [][toolResponse = NoResponse]_vars

C20_Witness ==
    /\ call # NoCall
    /\ call.name = "instagram-post-story"
    /\ toolResponse = ToolFailure("Error: Tool not found: instagram-post-story")

\* C21: the answer to a failed tool call has one text item; for a failed
\* orchestrator the text is 'Error: ' and the message of the error, followed
\* by its kind unless UNKNOWN_ERROR, its status if it has one and its trace id
\* if it has one, and nothing else; the access token does not occur in it.
C21_FailureText ==
    (toolResponse # NoResponse /\ toolResponse.isError) =>
        LET text == toolResponse.content[1].text IN
        /\ Len(toolResponse.content) = 1
        /\ DOMAIN toolResponse.content[1] = {"type", "text"}
        /\ SubSeq(text, 1, 7) = "Error: "
        /\ tool \in Orchestrators =>
              /\ text =
                    "Error: " \o outcome.message
                    \o (IF IsApiError(outcome) /\ outcome.type # "UNKNOWN_ERROR"
                        THEN " (Type: " \o outcome.type \o ")" ELSE "")
                    \o (IF IsApiError(outcome) /\ outcome.statusCode # <<>>
                        THEN " (Status: " \o ToString(outcome.statusCode[1]) \o ")"
                        ELSE "")
                    \o (IF IsApiError(outcome) /\ outcome.fbTraceId # ""
                        THEN " (Trace ID: " \o outcome.fbTraceId \o ")" ELSE "")
              /\ userAccessToken # "" => ~Includes(text, userAccessToken)

C21_Witness ==
    /\ tool = "reel" /\ failedAt = "poll"
    /\ toolResponse # NoResponse
    /\ toolResponse.content[1].text =
          "Error: token expired (Type: EXPIRED_TOKEN) (Status: 190) (Trace ID: AbCdEf)"


----------------------------------------------------------------------------
(* C22: without INSTAGRAM_APP_ID the instagram-auth tool answers the
   configuration error (isError, no OAuth URL in the text), and it answers an
   error for that reason only; a publish tool never fails for the missing
   application id: its credentials step fails exactly when user.json is
   unreadable or lacks id or accessToken, and neither its outcome nor its
   answer mentions the application id, whether it is configured or not *)
C22_AbsentAppId ==
    /\ (call # NoCall /\ call.name = "instagram-auth") =>
          /\ toolResponse.t = "toolResult"
          /\ toolResponse.isError <=> (appId = "")
          /\ appId = "" =>
                /\ toolResponse.content =
                      <<[type |-> "text",
                         text |-> "Error: Instagram App ID (INSTAGRAM_APP_ID) is not configured in environment variables."]>>
                /\ ~Includes(toolResponse.content[1].text, "oauth")
    /\ tool \in Orchestrators =>
          /\ (failedAt = "credentials") <=>
                ~(userFile.t = "object" /\ userFile.id # ""
                  /\ userFile.accessToken # "")
          /\ outcome.t \in {"Error", "InstagramApiError"} =>
                ~Includes(outcome.message, "INSTAGRAM_APP_ID")
          /\ toolResponse # NoResponse =>
                /\ toolResponse = afterOrchestrator(call.name, outcome)
                /\ ~Includes(toolResponse.content[1].text, "INSTAGRAM_APP_ID")
          /\ (appId # "" /\ requests # <<>>) => ~Includes(LastUrl, appId)

\* instagram-auth was called with no application id in the environment
C22_Witness ==
    /\ appId = ""
    /\ call # NoCall /\ call.name = "instagram-auth"
    /\ toolResponse.isError

----------------------------------------------------------------------------
(* C23: with the application id configured, instagram-auth called with no
   arguments or with no redirectUri answers without isError the OAuth URL whose
   redirect_uri is the encoded default
   https://localhost:6001/auth/callback/instagram-standalone, and called with a
   redirectUri it answers the URL whose redirect_uri is that URI, encoded *)
C23_RedirectUri ==
    (call # NoCall /\ call.name = "instagram-auth" /\ appId # "") =>
        LET text == toolResponse.content[1].text
            given == IF call.args.t = "undefined" THEN "" ELSE call.args.redirectUri
            encoded ==
                IF given = ""
                THEN "https%3A%2F%2Flocalhost%3A6001%2Fauth%2Fcallback%2Finstagram-standalone"
                ELSE IF given = "https://app.example/cb"
                THEN "https%3A%2F%2Fapp.example%2Fcb"
                ELSE "?"
        IN /\ ~toolResponse.isError
           /\ StartsWith(text,
                 "Instagram OAuth URL: https://www.instagram.com/oauth/authorize?enable_fb_login=0&client_id="
                 \o appId \o "&redirect_uri=" \o encoded \o "&response_type=code&scope=")
           /\ \E state \in MadeIds :
                 EndsWith(text, "&state=" \o state \o ". State: " \o state)

\* instagram-auth was called with {} and answered the URL of the default URI
C23_Witness ==
    /\ appId = "1234567890"
    /\ call # NoCall /\ call.name = "instagram-auth"
    /\ call.args = [t |-> "object", redirectUri |-> ""]
    /\ Includes(toolResponse.content[1].text,
                "redirect_uri=https%3A%2F%2Flocalhost%3A6001%2Fauth%2Fcallback%2Finstagram-standalone&")


----------------------------------------------------------------------------
(* C24: whatever the interleaving of two concurrent publish invocations, the
   creation_id an invocation passes to media_publish, the container its status
   requests poll and every child id of its CAROUSEL container is a non-empty
   id that a container create of that same invocation returned, and no id a
   create returned to the other invocation *)
C24_OwnContainers ==
    \A p \in DOMAIN invocations :
        LET v == invocations[p]
            foreign == UNION {invocations[q].created :
                                q \in DOMAIN invocations \ {p}}
            Own(id) == id # "" /\ id \in v.created /\ id \notin foreign
        IN \A k \in 1..Len(v.requests) :
              LET r == v.requests[k] IN
              /\ IsPublish(r) =>
                    /\ Param(r, "creation_id") # {}
                    /\ \A id \in Param(r, "creation_id") : Own(id)
              /\ r.method = "GET" =>
                    \E id \in v.created :
                        Own(id) /\ r.url = statusUrl(id, v.userAccessToken)
              /\ \A ch \in Param(r, "children") :
                    LET ids == SplitComma(ch) IN
                    /\ Len(ids) = Len(v.input.mediaItems)
                    /\ \A j \in 1..Len(ids) : Own(ids[j])

\* Two Reels in flight together: the second container was created and
\* published between the create and the publish of the first
C24_Witness ==
    /\ DOMAIN invocations = Invocations
    /\ invocations[1].tool = "reel" /\ invocations[2].tool = "reel"
    /\ invocations[1].containerId = "901" /\ invocations[2].containerId = "902"
    /\ invocations[2].outcome = PublishResult("903", "Reel posted successfully")
    /\ invocations[1].outcome = PublishResult("904", "Reel posted successfully")


----------------------------------------------------------------------------
(* C25: in every orchestrator the step that fails sends nothing, and once a
   step has failed the invocation is over: it issues no further request and
   its outcome stays the error of that step; so no media_publish request
   exists unless the publish itself failed, and no request is a DELETE *)
C25_AbortOnFirstFailure ==
    /\ [][/\ (failedAt = "" /\ failedAt' # "") => requests' = requests
          /\ failedAt # "" =>
                UNCHANGED <<requests, pc, failedAt, outcome>>]_vars
    /\ [](failedAt # "" =>
            /\ pc = "done"
            /\ outcome.t \notin {"none", "result"}
            /\ failedAt # "publish" => ~HasPublish
            /\ \A k \in 1..Len(requests) :
                  requests[k].method \in {"HEAD", "GET", "POST"})

\* A carousel whose second child failed after the first was created, and then
\* answered by the handler: the first container is left as it is
C25_Witness ==
    /\ tool = "carousel" /\ failedAt = "child"
    /\ Len(itemContainerIds) = 1 /\ Len(requests) = 2
    /\ toolResponse # NoResponse


----------------------------------------------------------------------------
(* C26 (as stated): in the carousel orchestrator, before the request that
   creates the parent CAROUSEL container is issued, the container of every
   VIDEO item has been the object of a status request *)
C26_Original ==
    tool = "carousel" =>
        \A k \in 1..Len(requests) :
            Param(requests[k], "media_type") = {"CAROUSEL"} =>
                \A j \in 1..Len(input.mediaItems) :
                    input.mediaItems[j].type = "VIDEO" =>
                        \E m \in 1..(k - 1) :
                            /\ requests[m].method = "GET"
                            /\ requests[m].url =
                                  statusUrl(itemContainerIds[j], userAccessToken)


----------------------------------------------------------------------------
(* C27 (as stated): no response of the callback server, whatever its status,
   has in any member of its body a token the provider can hand out *)
C27_Original ==
    (tool = "authServer" /\ res # NoResponse) =>
        \A tok \in ShortLivedTokens \cup LongLivedTokens :
            \A member \in DOMAIN res.body : ~Includes(res.body[member], tok)


----------------------------------------------------------------------------
(* C28: while every status poll has ended with a classified NETWORK_ERROR the
   poller has not failed with it: it sleeps, polls again while the time since
   the start of polling is below maxWaitTimeMs, and at the first wake at or
   past it fails with the UNKNOWN_ERROR "timed out" error, having sent nothing
   more.  The time counted is the whole time since the start: all the sleeps
   are in it, and the last poll was issued before the deadline *)
C28_TransientUntilDeadline ==
    (tool = "reel" /\ AllNetworkError) =>
        /\ elapsed >= (IF pc = "sleeping" THEN polls - 1 ELSE polls) * pollMs
        /\ \/ /\ pc = "sleeping"
              /\ Len(sleeps) = polls /\ Len(requests) = polls + 1
           \/ /\ pc = "awaitStatus"
              /\ Len(sleeps) = polls /\ Len(requests) = polls + 2
              /\ elapsed < maxWaitMs
           \/ /\ pc = "done" /\ failedAt = "poll"
              /\ outcome = InstagramApiError("Reel container processing timed out.",
                                             "UNKNOWN_ERROR", <<>>, "")
              /\ Len(sleeps) = polls /\ Len(requests) = polls + 1
              /\ elapsed >= maxWaitMs
              /\ elapsed - pollMs - SlowLatencyMs < maxWaitMs

\* Twenty polls, all NETWORK_ERROR and all answered at once, then the timeout
C28_Witness ==
    /\ tool = "reel" /\ AllNetworkError
    /\ pc = "done" /\ IsTimeout(outcome)
    /\ polls = 20 /\ elapsed = maxWaitTimeMs

----------------------------------------------------------------------------
(* C29: every delay the poller passes to setTimeout is pollIntervalMs, the
   first as the last and whatever the poll before it gave; there is exactly
   one sleep between two consecutive status requests, and a wake adds exactly
   pollIntervalMs to the time elapsed *)
C29_FixedInterval ==
    /\ [](tool = "reel" =>
            /\ \A k \in 1..Len(sleeps) : sleeps[k] = pollIntervalMs
            /\ pc = "awaitStatus" => Len(sleeps) = polls
            /\ pc = "sleeping" => Len(sleeps) = polls
            /\ Len(sleeps) \in {polls - 1, polls} \/ polls = 0)
    /\ [][(tool = "reel" /\ pc = "sleeping") =>
            /\ elapsed' = elapsed + pollIntervalMs
            /\ sleeps' = sleeps]_vars

\* Three sleeps, the last one after a NETWORK_ERROR and an earlier one after a
\* status that was not terminal
C29_Witness ==
    /\ tool = "reel" /\ pc = "sleeping" /\ Len(sleeps) = 3
    /\ PollErrorKind(lastPoll) = "NETWORK_ERROR" /\ ~priorNetworkError
    /\ priorInProgress

----------------------------------------------------------------------------
(* C30: after a status poll answered 2xx with a JSON object whose status_code
   is none of FINISHED, ERROR, EXPIRED (IN_PROGRESS, PUBLISHED, or none), the
   poller has neither returned nor failed on it: it sleeps pollIntervalMs and
   polls again, unless the deadline has passed during the sleep, in which case
   it fails with the timeout error *)
C30_NonTerminalStatus ==
    (tool = "reel" /\ PollSucceeded
     /\ ObservedStatus(lastPoll) \notin {"FINISHED", "ERROR", "EXPIRED"}) =>
        /\ ObservedStatus(lastPoll) \in {"IN_PROGRESS", "PUBLISHED", ""}
        /\ ~HasPublish
        /\ sleeps # <<>> /\ sleeps[Len(sleeps)] = pollIntervalMs
        /\ \/ /\ pc = "sleeping"
              /\ Len(sleeps) = polls /\ Len(requests) = polls + 1
           \/ /\ pc = "awaitStatus"
              /\ Len(sleeps) = polls /\ Len(requests) = polls + 2
              /\ requests[Len(requests)] = statusRequest(containerId, userAccessToken)
           \/ /\ pc = "done" /\ failedAt = "poll" /\ IsTimeout(outcome)
              /\ Len(sleeps) = polls /\ elapsed >= maxWaitMs

\* A poll showed PUBLISHED, the poller slept and asked again
C30_Witness ==
    /\ tool = "reel" /\ PollSucceeded
    /\ ObservedStatus(lastPoll) = "PUBLISHED"
    /\ pc = "awaitStatus" /\ polls = 2

----------------------------------------------------------------------------
(* C31 as stated: the timeout error is never raised while the time elapsed is
   below maxWaitMs; at least one poll is made when maxWaitMs > 0 and none
   when maxWaitMs <= 0; when the status requests take no time the number of
   polls is at most ceil(maxWaitMs / pollIntervalMs) and the poller ends no
   later than maxWaitMs + pollIntervalMs after it started *)
C31_Original ==
    PollerCalled =>
        /\ IsTimeout(outcome) => elapsed >= maxWaitMs
        /\ maxWaitMs > 0 => StatusRequests # {}
        /\ maxWaitMs <= 0 => StatusRequests = {}
        /\ NoLatency =>
              /\ Cardinality(StatusRequests) <= CeilDiv(maxWaitMs, pollMs)
              /\ PollerEnded => elapsed <= maxWaitMs + pollMs

(* C31, amended: the deadline is checked before each poll and nowhere else.
   The timeout error is raised only at the loop condition, after a whole
   sleep, with the time elapsed at or past maxWaitMs; at least one poll is
   made when maxWaitMs > 0; when maxWaitMs <= 0 no poll is made and the
   poller fails at once with the timeout error.  When maxWaitMs > 0 and the
   status requests take no time, the number of polls is at most
   ceil(maxWaitMs / pollIntervalMs) and the poller ends no later than
   maxWaitMs + pollIntervalMs after it started *)
C31_Amended ==
    PollerCalled =>
        /\ IsTimeout(outcome) => (elapsed >= maxWaitMs /\ Len(sleeps) = polls)
        /\ maxWaitMs > 0 => StatusRequests # {}
        /\ maxWaitMs <= 0 =>
              /\ StatusRequests = {} /\ polls = 0
              /\ pc = "done" /\ IsTimeout(outcome) /\ elapsed = 0
        /\ (maxWaitMs > 0 /\ NoLatency) =>
              /\ Cardinality(StatusRequests) <= CeilDiv(maxWaitMs, pollMs)
              /\ polls <= CeilDiv(maxWaitMs, pollMs)
              /\ PollerEnded => elapsed <= maxWaitMs + pollMs

\* maxWaitMs = 7000 and pollIntervalMs = 3000: polls at 0, 3000 and 6000, all
\* answered at once, and the timeout at 9000
C31_Witness ==
    /\ PollerCalled /\ NoLatency
    /\ maxWaitMs = 7000 /\ pollMs = 3000
    /\ polls = 3 /\ Cardinality(StatusRequests) = 3
    /\ pc = "done" /\ IsTimeout(outcome) /\ elapsed = 9000

----------------------------------------------------------------------------
(* C32: a status poll that ends with an exception that is not a classified
   error (fetch rejects, the body of the status response is not JSON) is
   swallowed: the poller takes the same step as after a NETWORK_ERROR, a
   sleep of pollIntervalMs and then the loop condition.  It has not failed
   with that exception: either it is sleeping, or it has issued the next
   status request, or it has failed with the timeout error at the deadline.
   No failure of the poller carries an unclassified exception or its text *)
C32_Unclassified ==
    /\ (tool = "reel" /\ failedAt = "poll") =>
          /\ IsApiError(outcome) /\ outcome.type # "NETWORK_ERROR"
          /\ pollTry(lastPoll).thrown =>
                \/ outcome = timedOut
                \/ outcome = pollTry(lastPoll).v
    /\ (tool = "reel" /\ PollThrewUnclassified) =>
          /\ PollVerdict(lastPoll).kind = "sleep"
          /\ ~HasPublish
          /\ sleeps # <<>> /\ sleeps[Len(sleeps)] = pollIntervalMs
          /\ \/ /\ pc = "sleeping" /\ outcome = NoOutcome
                /\ Len(sleeps) = polls /\ Len(requests) = polls + 1
             \/ /\ pc = "awaitStatus" /\ outcome = NoOutcome
                /\ Len(sleeps) = polls /\ Len(requests) = polls + 2
                /\ requests[Len(requests)] = statusRequest(containerId, userAccessToken)
             \/ /\ pc = "done" /\ failedAt = "poll" /\ outcome = timedOut
                /\ Len(sleeps) = polls /\ elapsed >= maxWaitMs

\* The third status request was answered 200 with a body that is not JSON: the
\* poller slept and issued the fourth
C32_Witness ==
    /\ tool = "reel" /\ PollThrewUnclassified
    /\ lastPoll.t = "response" /\ ok(lastPoll) /\ lastPoll.body = NotJson
    /\ pc = "awaitStatus" /\ polls = 3 /\ Len(requests) = 5
    /\ requests[5] = statusRequest(containerId, userAccessToken)

----------------------------------------------------------------------------
(* C33: for a raw value that is not yet classified and for which the
   classifier returns, the first test that matches decides.  With an error
   envelope the kind is that of the provider code, one of EXPIRED_TOKEN,
   INSUFFICIENT_SCOPE, RATE_LIMIT, INVALID_REQUEST, whatever response comes
   with it; the kind is NETWORK_ERROR exactly when there is no envelope and a
   response with a non-success status; it is UNKNOWN_ERROR exactly when there
   is no envelope and no such response, and then the message is the message
   of the raw value, or "Unknown error" when it has none *)
C33_FirstMatchWins ==
    \A k \in 1..Len(classified) :
        LET c == classified[k] IN
        (~IsApiError(c.error) /\ ~c.result.thrown) =>
            LET e == c.result.v IN
            /\ IsApiError(e)
            /\ HasEnvelope(c.error) =>
                  /\ e.type \in {"EXPIRED_TOKEN", "INSUFFICIENT_SCOPE",
                                 "RATE_LIMIT", "INVALID_REQUEST"}
                  /\ e = handleInstagramError(c.error, undefined).v
            /\ e.type = "NETWORK_ERROR" <=>
                  (~HasEnvelope(c.error) /\ NonSuccess(c.response))
            /\ e.type = "UNKNOWN_ERROR" <=>
                  (~HasEnvelope(c.error) /\ ~NonSuccess(c.response))
            /\ e.type = "UNKNOWN_ERROR" =>
                  e.message = (IF c.error.t = "Error" /\ c.error.message # ""
                               THEN c.error.message ELSE "Unknown error")

\* An envelope with code 4 that came with a response of status 500 is a
\* RATE_LIMIT error, not a NETWORK_ERROR
C33_Witness ==
    /\ Len(classified) = 1
    /\ classified[1].error = Envelope(<<4>>, "", "")
    /\ NonSuccess(classified[1].response)
    /\ classified[1].response.status = 500
    /\ classified[1].result.v.type = "RATE_LIMIT"

----------------------------------------------------------------------------
(* C34 (as stated): whenever the error an orchestrator fails with has a
   status, that status is the HTTP status of the response the failing step
   received, and the "Status" of the rendered tool error is that HTTP status;
   for errors built from a provider error envelope as for the others *)
C34_Original ==
    (tool \in Orchestrators /\ pc = "done" /\ IsApiError(outcome)
     /\ outcome.statusCode # <<>>) =>
        /\ FailingResponse.t = "response"
        /\ outcome.statusCode = <<FailingResponse.status>>
        /\ (toolResponse # NoResponse /\ outcome.statusCode # <<0>>) =>
              /\ toolResponse.t = "toolResult"
              /\ Includes(toolResponse.content[1].text,
                          "(Status: " \o ToString(FailingResponse.status) \o ")")

----------------------------------------------------------------------------
(* C35: no error of kind INVALID_TOKEN is produced.  The error an
   orchestrator fails with, the error the validator or the classifier makes
   of a provider answer, and the error a status poll ends with each have one
   of the six kinds EXPIRED_TOKEN, INSUFFICIENT_SCOPE, RATE_LIMIT,
   INVALID_REQUEST, NETWORK_ERROR, UNKNOWN_ERROR; the text of the tool error
   does not name INVALID_TOKEN *)
C35_NoInvalidToken ==
    tool \in Orchestrators =>
        /\ IsApiError(outcome) => outcome.type \in ProducedKinds
        /\ (response # NoResponse /\ Received.thrown /\ IsApiError(Received.v)) =>
              Received.v.type \in ProducedKinds
        /\ (polls >= 1 /\ pollTry(lastPoll).thrown
            /\ IsApiError(pollTry(lastPoll).v)) =>
              pollTry(lastPoll).v.type \in ProducedKinds
        /\ toolResponse # NoResponse =>
              /\ toolResponse.t = "toolResult"
              /\ ~Includes(toolResponse.content[1].text, "INVALID_TOKEN")

\* The publish of an image is refused with the provider code 190, the code of
\* a token that is no longer valid: the error is an EXPIRED_TOKEN
C35_Witness ==
    /\ tool = "image" /\ pc = "done" /\ failedAt = "publish"
    /\ IsExpiredTokenBody(response.r)
    /\ IsApiError(outcome) /\ outcome.type = "EXPIRED_TOKEN"
    /\ toolResponse # NoResponse
    /\ Includes(toolResponse.content[1].text, "(Type: EXPIRED_TOKEN)")

----------------------------------------------------------------------------
(* C36: an invocation issues at most one media_publish call and at most one
   container create that is not a carousel child (the image container, the
   Reel container, the carousel parent); a carousel of N items issues at most
   N child creates, the j-th of them for item j, so none for the same item
   twice, and child creates only in a carousel.  No POST request is issued a
   second time, and once the invocation has ended it issues nothing *)
C36_NoRetry ==
    tool \in Orchestrators =>
        /\ Cardinality(PublishCalls) <= 1
        /\ Cardinality(ContainerCreates) <= 1
        /\ tool # "carousel" => ChildCreates = {}
        /\ tool = "carousel" =>
              /\ Cardinality(ChildCreates) <= Len(input.mediaItems)
              /\ ChildCreates = 1..Cardinality(ChildCreates)
              /\ \A j \in ChildCreates :
                    requests[j] = childRequest(igUserId, userAccessToken,
                                               input.mediaItems[j])
        /\ \A j, k \in 1..Len(requests) :
              (j < k /\ requests[j].method = "POST") => requests[j] # requests[k]
        /\ \A k \in PublishCalls : k = Len(requests)

\* A carousel of three items posted: three child creates, one parent create
\* and one publish call, five requests in all
C36_Witness ==
    /\ tool = "carousel" /\ Len(input.mediaItems) = 3
    /\ pc = "done" /\ outcome.t = "result"
    /\ Cardinality(ChildCreates) = 3 /\ Cardinality(ContainerCreates) = 1
    /\ Cardinality(PublishCalls) = 1 /\ Len(requests) = 5

----------------------------------------------------------------------------
(* C37: an invocation takes the user id and the access token from user.json
   when it is called and keeps them: from then on igUserId and
   userAccessToken do not change, whatever is written to user.json, and every
   request of the invocation is made with them.  Container creates and the
   publish call go to the media and media_publish edges of igUserId with
   userAccessToken as access_token, status requests carry userAccessToken *)
C37_ReadOnce ==
    /\ [][/\ (pc = "idle" /\ pc' # "idle") =>
                /\ igUserId' = CredId(userFile)
                /\ userAccessToken' = CredToken(userFile)
          /\ pc # "idle" =>
                /\ igUserId' = igUserId
                /\ userAccessToken' = userAccessToken]_vars
    /\ [](tool \in Orchestrators =>
            \A k \in 1..Len(requests) :
                LET r == requests[k] IN
                /\ r.method = "POST" =>
                      /\ r.url \in {mediaUrl(igUserId), publishUrl(igUserId)}
                      /\ Param(r, "access_token") = {userAccessToken}
                /\ r.method = "GET" =>
                      r.url = statusUrl(containerId, userAccessToken)
                /\ r.method = "HEAD" => r.url = input.imageUrl)

\* A Reel invocation called as user 17841: user.json was overwritten with the
\* record of user 17999 before the container was ready, and the publish call
\* was issued for user 17841 with the token read at the start
C37_Witness ==
    /\ tool = "reel" /\ pc = "awaitPublish" /\ polls >= 2
    /\ userFile = OtherUserRecord
    /\ igUserId = "17841" /\ CredId(userFile) = "17999"
    /\ userAccessToken = "IGtok" /\ CredToken(userFile) = "IGQWRlongB"
    /\ requests[Len(requests)] = publishRequest("17841", "IGtok", containerId)
    /\ \A k \in 1..Len(requests) :
          requests[k].method = "GET" =>
              requests[k].url = statusUrl(containerId, "IGtok")

----------------------------------------------------------------------------
(* C38 (as stated): whenever the callback server answers the callback with
   success, user.json holds the record of the user just authenticated (the
   id of the answer, the long-lived token just obtained), with an id and an
   accessToken that are not empty; a step that answers with an error (400,
   500) leaves user.json as it was *)
C38_Original ==
    /\ [](AnsweredSuccess =>
            /\ userFile.t = "object"
            /\ userFile.id = res.body.id /\ userFile.id # ""
            /\ userFile.accessToken
                  = Property(Member(longLivedTokenData, "access_token"))
            /\ userFile.accessToken # "")
    /\ [][(tool = "authServer" /\ res = NoResponse /\ res' # NoResponse
           /\ res'.status \in {400, 500}) => userFile' = userFile]_vars

----------------------------------------------------------------------------
(* C39 (as stated): when every HTTP request completes and every timer fires,
   an invocation of a publish orchestrator eventually ends, and when it has
   ended the caller has a PublishResult or an InstagramApiError *)
C39_Original ==
    /\ [](tool \in Orchestrators => <>(pc = "done"))
    /\ []((tool \in Orchestrators /\ pc = "done") =>
            (outcome.t = "result" \/ IsApiError(outcome)))

====
